---- MODULE Spec2Model ----
(***************************************************************************)
(* Model of the Virtual Kubelet / FlightCtl provider                       *)
(* (rh-waterford-et/codeco_nonk8s).                                        *)
(*                                                                         *)
(* Spec      the provider under two concurrent callers: CreatePod,         *)
(*           UpdatePod, DeletePod run by the orchestrator's goroutines     *)
(*           against the FlightCtl backend (device documents read with     *)
(*           GET, replaced with PUT).                                      *)
(* SpecPoll  one caller and the reconciliation loop.                       *)
(* SpecDisc  one caller, the reconciliation loop, a clock (minutes) and a  *)
(*           device that loses and regains its connection.                 *)
(* SpecResources  Device.HasSufficientResources on a range of quantities.  *)
(* SpecSelect     DeploymentTarget.SelectDevice on small device registries.*)
(* SpecMap        mapFlightctlStatusToPodStatus on status strings in every *)
(*                mix of upper and lower case.                             *)
(* SpecStatus     PodManager.GetPodStatus on device documents.             *)
(* SpecToken      the client's tokenManager under two requests.            *)
(* SpecTracker    models.TimeoutTracker.                                   *)
(* SpecRestart    SpecPoll started with applications already deployed.     *)
(* SpecCompose    convertPodToDockerCompose on small pods.                 *)
(* SpecShared     two callers, one pod each, both on the default device.   *)
(* SpecNames      one caller and two pods with "-" in namespace or name.   *)
(* SpecManager    PodManager.DeployPod, UpdatePod and DeletePod, one call  *)
(*                after the other, on one device's application list.       *)
(***************************************************************************)
EXTENDS Integers, Sequences, FiniteSets, TLC

VARIABLES
    podMappings,  \* Provider.podMappings: podKey -> PodDeviceMapping
    mu,           \* Provider.mu: the goroutine holding the write lock, or NoOne
    pc,           \* per caller goroutine: where it is in its call
    loc,          \* per caller goroutine: the locals of its call
    ret,          \* per caller goroutine: what its last call returned
    poll,         \* the reconciliation goroutine: position, snapshot, fetched status;
                  \* history: the disconnections (device, time) its last tick polled into
    deviceApps,   \* backend: device ID -> spec.applications (names, in order)
    lastDone,     \* history: per pod key, the last Create/Delete that returned nil
    cleanDelete,  \* history: per pod key, a DeletePod returned nil leaving neither mapping nor
                  \* application, and since then no CreatePod of the key has taken
                  \* the lock and no UpdatePod of the key has read the table
    conn,         \* environment: device ID -> connection state
    now,          \* environment: the clock, in minutes
    discAt,       \* history: device ID -> time of its last disconnection, -1 if none
    reconnAt,     \* history: device ID -> time of its last reconnection, -1 if none
    sel,          \* a device selection: its inputs (device list, pod counts, target,
                  \* request) and what SelectDevice and HasSufficientResources returned
    conv,         \* a status conversion: the backend's status string and the pod status
                  \* mapFlightctlStatusToPodStatus returned for it
    tok,          \* the client's tokenManager: cached token, expiry, lock, clock
                  \* (seconds), and the goroutines going through RoundTrip
    trk           \* a models.TimeoutTracker and the calls made on it

vars == <<podMappings, mu, pc, loc, ret, poll, deviceApps, lastDone, cleanDelete,
          conn, now, discAt, reconnAt, sel, conv, tok, trk>>

envVars == <<conn, now, discAt, reconnAt>>

pureVars == <<sel, conv, tok, trk>>

----------------------------------------------------------------------------
(* Bounds of the model *)

\* The token manager's clock stops at MaxTokenTime seconds.
MaxTokenTime == 150

\* The token endpoint is asked at most MaxTokenRequests times.
MaxTokenRequests == 3

\* Cancel is called at most MaxCancels times on a tracker.
MaxCancels == 3

\* A tracker is followed for MaxTrackerAge seconds after its creation.
MaxTrackerAge == 2400

\* The clock stops at MaxTime minutes.
MaxTime == 6

\* The documented default of the reconnection timeout, in minutes.
ReconnectTimeout == 5

----------------------------------------------------------------------------
(* Names *)

NoOne == "none"
Callers == {"c1", "c2"}
OneCaller == {"c1"}

deviceIDAnnotation == "flightctl.io/device-id"
fleetIDAnnotation == "flightctl.io/fleet-id"
defaultDeviceID == "d1k9ppdrurp23cfmj554f4rtt4f8uvo9mba4sp3in9arhli44ot0"

DeviceIDs == {"dev-1", defaultDeviceID}

Namespaces == {"ns"}
Names == {"a", "b"}
UIDs == {"uid-1"}

\* The pod objects the orchestrator hands to the provider (identity part).
PodIdents == [Namespace : Namespaces, Name : Names, UID : UIDs]

\* The pods of SpecPoll and SpecDisc.
OnePod == { i \in PodIdents : i.Name = "a" }

\* Pod annotations: the maps over the two selection keys that the orchestrator may send.
AnnotationSets ==
    { <<>>,
      [x \in {deviceIDAnnotation} |-> "dev-1"],
      [x \in {deviceIDAnnotation} |-> ""],
      [x \in {fleetIDAnnotation} |-> "fleet-1"],
      [x \in {deviceIDAnnotation, fleetIDAnnotation} |->
          IF x = deviceIDAnnotation THEN "dev-1" ELSE "fleet-1"],
      [x \in {deviceIDAnnotation, fleetIDAnnotation} |->
          IF x = deviceIDAnnotation THEN "" ELSE "fleet-1"] }

\* The annotation maps without a usable device-id: the pod goes to the default device
\* or, with a fleet-id, is refused.
UnroutedAnnotations ==
    { ann \in AnnotationSets :
        deviceIDAnnotation \notin DOMAIN ann \/ ann[deviceIDAnnotation] = "" }

\* The annotations of SpecDisc: none, every pod goes to the default device.
NoAnnotations == { ann \in AnnotationSets : DOMAIN ann = {} }

\* Resource requests of a pod, summed over its containers (CPU cores, memory GiB).
Requests == { [cpu |-> 1, mem |-> 1], [cpu |-> 100, mem |-> 1], [cpu |-> 1, mem |-> 16] }

\* The requests of SpecDisc.
SmallRequests == {r \in Requests : r.cpu = 1 /\ r.mem = 1}

\* Allocatable resources of every device (CPU cores, memory GiB).
Allocatable == [cpu |-> 4, mem |-> 8]

\* A status string is a sequence of characters, each a one-character string.
\* The upper-case and the lower-case ASCII letters, in order.
Upper == <<"A", "B", "C", "D", "E", "F", "G", "H", "I", "J", "K", "L", "M", "N", "O", "P", "Q", "R", "S", "T", "U", "V", "W", "X", "Y", "Z">>
Lower == <<"a", "b", "c", "d", "e", "f", "g", "h", "i", "j", "k", "l", "m", "n", "o", "p", "q", "r", "s", "t", "u", "v", "w", "x", "y", "z">>

\* The string literals of mapFlightctlStatusToPodStatus's switch.
running == <<"r", "u", "n", "n", "i", "n", "g">>
pending == <<"p", "e", "n", "d", "i", "n", "g">>
starting == <<"s", "t", "a", "r", "t", "i", "n", "g">>
failed == <<"f", "a", "i", "l", "e", "d">>
error == <<"e", "r", "r", "o", "r">>
completed == <<"c", "o", "m", "p", "l", "e", "t", "e", "d">>
succeeded == <<"s", "u", "c", "c", "e", "e", "d", "e", "d">>
stopped == <<"s", "t", "o", "p", "p", "e", "d">>

\* A nil pointer (DeploymentTarget.FleetID, DeploymentTarget.DeviceID, a nil *Device).
Nil == "<nil>"

\* Application status strings the backend may report.
BackendStatuses == {<<"R", "u", "n", "n", "i", "n", "g">>, <<"b", "o", "g", "u", "s">>}
NoReport == <<"<none>">>

\* fmt.Sprintf("%s/%s", pod.Namespace, pod.Name)
PodKey(ns, name) == ns \o "/" \o name

\* fmt.Sprintf("%s-%s", pod.Namespace, pod.Name)
AppName(ns, name) == ns \o "-" \o name

Keys == { PodKey(i.Namespace, i.Name) : i \in PodIdents }

KeyOf(pod) == PodKey(pod.Namespace, pod.Name)
AppOf(pod) == AppName(pod.Namespace, pod.Name)

----------------------------------------------------------------------------
(* Pure functions of the provider *)

\* Faulty variant of selectDeviceForPod: a pod with a fleet-id falls back to the default
\* device.
selectDeviceForPodFallsBack(ann) ==
    IF deviceIDAnnotation \in DOMAIN ann /\ ann[deviceIDAnnotation] # ""
    THEN [err |-> FALSE, dev |-> ann[deviceIDAnnotation]]
    ELSE [err |-> FALSE, dev |-> defaultDeviceID]

\* Faulty variant of selectDeviceForPod: the fleet-id is looked at first.
selectDeviceForPodFleetFirst(ann) ==
    IF fleetIDAnnotation \in DOMAIN ann /\ ann[fleetIDAnnotation] # ""
    THEN [err |-> TRUE, dev |-> ""]
    ELSE IF deviceIDAnnotation \in DOMAIN ann /\ ann[deviceIDAnnotation] # ""
    THEN [err |-> FALSE, dev |-> ann[deviceIDAnnotation]]
    ELSE [err |-> FALSE, dev |-> defaultDeviceID]

\* Provider.selectDeviceForPod
selectDeviceForPod(ann) ==
    IF deviceIDAnnotation \in DOMAIN ann /\ ann[deviceIDAnnotation] # ""
    THEN [err |-> FALSE, dev |-> ann[deviceIDAnnotation]]
    ELSE IF fleetIDAnnotation \in DOMAIN ann /\ ann[fleetIDAnnotation] # ""
    THEN [err |-> TRUE, dev |-> ""]
    ELSE [err |-> FALSE, dev |-> defaultDeviceID]

\* unicode.ToLower on an ASCII character: an upper-case letter becomes its lower-case
\* letter, every other character is left alone.
ToLowerChar(c) ==
    IF \E i \in DOMAIN Upper : Upper[i] = c
    THEN Lower[CHOOSE i \in DOMAIN Upper : Upper[i] = c]
    ELSE c

\* Faulty variant of ToLower: the string is compared as reported.
ToLowerAsIs(s) == s

\* strings.ToLower
ToLower(s) == [i \in DOMAIN s |-> ToLowerChar(s[i])]

\* Faulty variant of mapFlightctlStatusToPodStatus: an unrecognized status is a failure.
mapFlightctlStatusUnknownFails(s) ==
    LET l == ToLower(s) IN
    CASE l = running ->
           [Phase |-> "Running", Type |-> "Ready", Status |-> "True",
            Reason |-> "ApplicationRunning"]
      [] l \in {pending, starting} ->
           [Phase |-> "Pending", Type |-> "PodScheduled", Status |-> "True",
            Reason |-> "ApplicationStarting"]
      [] l \in {failed, error} ->
           [Phase |-> "Failed", Type |-> "Ready", Status |-> "False",
            Reason |-> "ApplicationFailed"]
      [] l \in {completed, succeeded} ->
           [Phase |-> "Succeeded", Type |-> "Ready", Status |-> "False",
            Reason |-> "ApplicationCompleted"]
      [] l = stopped ->
           [Phase |-> "Succeeded", Type |-> "Ready", Status |-> "False",
            Reason |-> "ApplicationStopped"]
      [] OTHER ->
           [Phase |-> "Failed", Type |-> "Ready", Status |-> "False",
            Reason |-> "UnknownStatus"]

\* PodManager.mapFlightctlStatusToPodStatus
mapFlightctlStatusToPodStatus(s) ==
    LET l == ToLower(s) IN
    CASE l = running ->
           [Phase |-> "Running", Type |-> "Ready", Status |-> "True",
            Reason |-> "ApplicationRunning"]
      [] l \in {pending, starting} ->
           [Phase |-> "Pending", Type |-> "PodScheduled", Status |-> "True",
            Reason |-> "ApplicationStarting"]
      [] l \in {failed, error} ->
           [Phase |-> "Failed", Type |-> "Ready", Status |-> "False",
            Reason |-> "ApplicationFailed"]
      [] l \in {completed, succeeded} ->
           [Phase |-> "Succeeded", Type |-> "Ready", Status |-> "False",
            Reason |-> "ApplicationCompleted"]
      [] l = stopped ->
           [Phase |-> "Succeeded", Type |-> "Ready", Status |-> "False",
            Reason |-> "ApplicationStopped"]
      [] OTHER ->
           [Phase |-> "Pending", Type |-> "PodScheduled", Status |-> "True",
            Reason |-> "UnknownStatus"]

\* PodManager.GetPodStatus, the path with no runtime status entry
DeployedStatus ==
    [Phase |-> "Pending", Type |-> "PodScheduled", Status |-> "True",
     Reason |-> "ApplicationDeployed"]

\* Provider.CreatePod, the initial status of a mapping
ScheduledStatus ==
    [Phase |-> "Pending", Type |-> "PodScheduled", Status |-> "True",
     Reason |-> "Scheduled"]

\* A nil *corev1.PodStatus
NilStatus == [Phase |-> "", Type |-> "", Status |-> "", Reason |-> "nil"]

\* Faulty variant of NewPodDeviceMapping: the mapping is published as the constructor
\* leaves it, with a nil Status.
NewPodDeviceMappingNoStatus(pod, deviceID) ==
    [PodKey |-> KeyOf(pod), Namespace |-> pod.Namespace, Name |-> pod.Name,
     PodUID |-> pod.UID, DeviceID |-> deviceID, DeployedAt |-> now,
     Status |-> NilStatus]

\* models.NewPodDeviceMapping, with the status CreatePod sets before publishing it
NewPodDeviceMapping(pod, deviceID) ==
    [PodKey |-> KeyOf(pod), Namespace |-> pod.Namespace, Name |-> pod.Name,
     PodUID |-> pod.UID, DeviceID |-> deviceID, DeployedAt |-> now,
     Status |-> ScheduledStatus]

\* The loop of DeployPod and DeletePod that drops the application of a name
FilterApps(apps, name) == SelectSeq(apps, LAMBDA a : a # name)

HasApp(apps, name) == \E i \in 1..Len(apps) : apps[i] = name

\* A nil device.Status.
NilDeviceStatus == [nil |-> TRUE, Applications |-> <<>>]

\* The first entry of device.Status.Applications that carries the application's name.
FirstReport(reports, name) ==
    reports[CHOOSE i \in DOMAIN reports :
                /\ reports[i].Name = name
                /\ \A j \in 1..(i - 1) : reports[j].Name # name]

\* Faulty variant of GetPodStatus: an application without a runtime status entry is
\* handed to the status mapper with an empty status string.
GetPodStatusMapsMissing(device, appName) ==
    IF device.err
    THEN [err |-> "getting device", status |-> NilStatus]
    ELSE IF ~HasApp(device.apps, appName)
    THEN [err |-> "not found", status |-> NilStatus]
    ELSE IF /\ ~device.status.nil
            /\ \E i \in DOMAIN device.status.Applications :
                  device.status.Applications[i].Name = appName
    THEN [err |-> "", status |->
            mapFlightctlStatusToPodStatus(
                FirstReport(device.status.Applications, appName).Status)]
    ELSE [err |-> "", status |-> mapFlightctlStatusToPodStatus(<<>>)]

\* PodManager.GetPodStatus on the device document getDevice answers with: err is the
\* failure of getDevice, apps the names in device.Spec.Applications, status the
\* pointer device.Status (nil, or with the entries (Name, Status) of its Applications).
GetPodStatus(device, appName) ==
    IF device.err
    THEN [err |-> "getting device", status |-> NilStatus]
    ELSE IF ~HasApp(device.apps, appName)
    THEN [err |-> "not found", status |-> NilStatus]
    ELSE IF /\ ~device.status.nil
            /\ Len(device.status.Applications) > 0
            /\ \E i \in DOMAIN device.status.Applications :
                  device.status.Applications[i].Name = appName
    THEN [err |-> "", status |->
            mapFlightctlStatusToPodStatus(
                FirstReport(device.status.Applications, appName).Status)]
    ELSE [err |-> "", status |-> DeployedStatus]

----------------------------------------------------------------------------
(* models.Device and models.DeploymentTarget *)

\* Faulty variant of IsReady: the connection state is not looked at.
IsReadyPhaseOnly(d) == d.Phase = "Ready"

\* Device.IsReady
IsReady(d) == d.Phase = "Ready" /\ d.ConnectionState = "Connected"

\* Device.HasSufficientResources: the request is subtracted from a copy of the
\* allocatable quantities; both remainders must be non-zero and not negative.
HasSufficientResources(d, cpu, memory) ==
    LET cpuAvail == d.Allocatable.CPU - cpu
        memAvail == d.Allocatable.Memory - memory
    IN  cpuAvail # 0 /\ cpuAvail >= 0 /\ memAvail # 0 /\ memAvail >= 0

\* d.Labels[key]: a key the map lacks reads as the empty string.
LabelOf(labels, key) == IF key \in DOMAIN labels THEN labels[key] ELSE ""

\* Faulty variant of MatchLabels: only the selector that range lists first is compared.
MatchFirstLabel(selectors, labels, order) ==
    order = <<>> \/ LabelOf(labels, Head(order)) = selectors[Head(order)]

\* The loop of matchesDevice over dt.Selectors, visiting the keys in the given order.
RECURSIVE MatchLabels(_, _, _)
MatchLabels(selectors, labels, order) ==
    IF order = <<>> THEN TRUE
    ELSE IF LabelOf(labels, Head(order)) # selectors[Head(order)] THEN FALSE
    ELSE MatchLabels(selectors, labels, Tail(order))

\* DeploymentTarget.matchesDevice; order is the order in which range lists the selectors.
matchesDevice(dt, d, order) ==
    IF dt.FleetID # Nil /\ d.FleetID # dt.FleetID THEN FALSE
    ELSE MatchLabels(dt.Selectors, d.Labels, order)

\* The orders in which ranging over a map may list its keys.
KeyOrders(m) ==
    { o \in [1..Cardinality(DOMAIN m) -> DOMAIN m] :
        \A i, j \in DOMAIN o : i # j => o[i] # o[j] }

\* resource.Quantity.Value of a CPU quantity held in millicores: whole cores, rounded up.
Value(milli) == (milli + 999) \div 1000

\* podsByDevice[id]: a device the map lacks counts zero pods.
PodsOf(podsByDevice, id) == IF id \in DOMAIN podsByDevice THEN podsByDevice[id] ELSE 0

\* The less function SelectDevice hands to sort.Slice.
Less(a, b, podsByDevice) ==
    IF Value(a.Allocatable.CPU) # Value(b.Allocatable.CPU)
    THEN Value(a.Allocatable.CPU) > Value(b.Allocatable.CPU)
    ELSE PodsOf(podsByDevice, a.ID) < PodsOf(podsByDevice, b.ID)

Front(s) == SubSeq(s, 1, Len(s) - 1)
Last(s) == s[Len(s)]

\* The inner loop of insertion sort: x moves left while it is less than its neighbour.
RECURSIVE InsertLast(_, _, _)
InsertLast(sorted, x, podsByDevice) ==
    IF sorted = <<>> THEN <<x>>
    ELSE IF Less(x, Last(sorted), podsByDevice)
    THEN Append(InsertLast(Front(sorted), x, podsByDevice), Last(sorted))
    ELSE Append(sorted, x)

\* sort.Slice on a slice of at most 12 elements: insertion sort.
RECURSIVE SortSlice(_, _)
SortSlice(s, podsByDevice) ==
    IF Len(s) <= 1 THEN s
    ELSE InsertLast(SortSlice(Front(s), podsByDevice), Last(s), podsByDevice)

\* The candidate list of SelectDevice: the devices that match the target and are ready,
\* in the order of the input; orders[i] is the selector order of the i-th matchesDevice.
RECURSIVE CandidatesFrom(_, _, _, _)
CandidatesFrom(dt, devices, orders, i) ==
    IF i > Len(devices) THEN <<>>
    ELSE (IF matchesDevice(dt, devices[i], orders[i]) /\ IsReady(devices[i])
          THEN <<devices[i]>> ELSE <<>>)
         \o CandidatesFrom(dt, devices, orders, i + 1)

\* DeploymentTarget.SelectDevice: the ID of the device returned, or the error.
SelectDevice(dt, devices, podsByDevice, orders) ==
    IF dt.DeviceID # Nil
    THEN LET found == { i \in 1..Len(devices) : devices[i].ID = dt.DeviceID } IN
         IF found = {} THEN [err |-> "not found", id |-> Nil]
         ELSE LET d == devices[CHOOSE i \in found : \A j \in found : i <= j] IN
              IF ~IsReady(d) THEN [err |-> "not ready", id |-> Nil]
              ELSE [err |-> "", id |-> d.ID]
    ELSE LET candidates == CandidatesFrom(dt, devices, orders, 1) IN
         IF Len(candidates) = 0 THEN [err |-> "no suitable device found", id |-> Nil]
         ELSE [err |-> "", id |-> SortSlice(candidates, podsByDevice)[1].ID]

----------------------------------------------------------------------------
(* State after NewProvider *)

\* make(map[string]*models.PodDeviceMapping)
EmptyMappings == [k \in {} |-> NilStatus]

NoPod == [Namespace |-> "", Name |-> "", UID |-> ""]
NoReq == [cpu |-> 0, mem |-> 0]

IdleLoc == [pod |-> NoPod, ann |-> <<>>, dev |-> "", apps |-> <<>>, req |-> NoReq,
            delRes |-> "", status |-> NilStatus, live |-> FALSE]

NoRet == [op |-> "", res |-> ""]

IdlePoll == [pc |-> "idle", snap |-> <<>>, status |-> NilStatus, sawDisc |-> {},
             report |-> NoReport, failed |-> FALSE]

\* The goroutines that send requests through the client's transport.
Requesters == {"r1", "r2"}

\* No token is held by a call of RoundTrip.
NoToken == [id |-> 0, cached |-> FALSE, at |-> 0, acquiredAt |-> 0, expiresIn |-> 0]

\* The tokenManager NewClient builds: no access token (id 0 is the empty string), the
\* zero expiry, the lock free. The clock is in seconds. History: acquiredAt and
\* expiresIn of the cached token, the number of token requests sent, and per goroutine
\* whether another goroutine stored a token while it waited for the lock.
NewTokenManager ==
    [accessToken |-> 0, expiresAt |-> 0, mu |-> NoOne, now |-> 0,
     acquiredAt |-> 0, expiresIn |-> 0, requests |-> 0,
     pc |-> [r \in Requesters |-> "idle"],
     token |-> [r \in Requesters |-> NoToken],
     res |-> [r \in Requesters |-> ""],
     served |-> [r \in Requesters |-> FALSE]]

\* No timeout tracker has been asked for.
NoTrk == [pc |-> "none"]

InitProvider ==
    /\ tok = NewTokenManager
    /\ podMappings = EmptyMappings
    /\ mu = NoOne
    /\ pc = [p \in Callers |-> "idle"]
    /\ loc = [p \in Callers |-> IdleLoc]
    /\ ret = [p \in Callers |-> NoRet]
    /\ poll = IdlePoll
    /\ deviceApps = [d \in DeviceIDs |-> <<>>]
    /\ lastDone = [k \in Keys |-> "none"]
    /\ cleanDelete = [k \in Keys |-> FALSE]
    /\ conn = [d \in DeviceIDs |-> "Connected"]
    /\ now = 0
    /\ discAt = [d \in DeviceIDs |-> -1]
    /\ reconnAt = [d \in DeviceIDs |-> -1]

\* No selection and no conversion is under way.
NoSel == [pc |-> "none"]
NoConv == [pc |-> "none"]

Init ==
    /\ InitProvider
    /\ trk = NoTrk
    /\ sel = NoSel
    /\ conv = NoConv

----------------------------------------------------------------------------
(* Helpers of the actions *)

Mapped(k) == k \in DOMAIN podMappings

\* Faulty variant of PutMapping: the write loses the other entries of the table.
PutMappingAlone(pm, k, m) == [x \in {k} |-> m]

\* p.podMappings[podKey] = mapping
PutMapping(pm, k, m) == [x \in DOMAIN pm \cup {k} |-> IF x = k THEN m ELSE pm[x]]

\* delete(p.podMappings, podKey)
DeleteMapping(pm, k) == [x \in DOMAIN pm \ {k} |-> pm[x]]

\* A caller between the two read sections of GetPod holds a pointer to the mapping
\* object it looked up. When that object leaves the table its fields stay readable:
\* the holder keeps the status the object had at that moment.
FreezeRefs(l, k) ==
    [q \in Callers |->
        IF pc[q] = "getpod_status" /\ l[q].live /\ KeyOf(l[q].pod) = k /\ Mapped(k)
        THEN [l[q] EXCEPT !.status = podMappings[k].Status, !.live = FALSE]
        ELSE l[q]]

\* The call of p returns: its locals are gone.
Returns(p, l, op, result) ==
    /\ pc' = [pc EXCEPT ![p] = "idle"]
    /\ loc' = [l EXCEPT ![p] = IdleLoc]
    /\ ret' = [ret EXCEPT ![p] = [op |-> op, res |-> result]]

\* updateDevice returned an error: the request never took effect, or it did and only
\* the answer was lost (the call was cancelled or timed out after the device API applied it).
PutFailed(da, dev, apps) == {da, [da EXCEPT ![dev] = apps]}

\* No device document lists the application.
NotDeployed(app) == \A d \in DeviceIDs : ~HasApp(deviceApps[d], app)

\* History of a key when a DeletePod that found no mapping returns nil: "delete_again"
\* after a DeletePod that removed the mapping, "delete_fresh" on a key never mapped.
AfterNoOp(last) == IF last \in {"delete", "delete_again"} THEN "delete_again" ELSE "delete_fresh"

Deleted == {"delete", "delete_again", "delete_fresh"}

Goto(p, label, l) ==
    /\ pc' = [pc EXCEPT ![p] = label]
    /\ loc' = l
    /\ UNCHANGED ret

----------------------------------------------------------------------------
(* Provider.CreatePod *)

\* The orchestrator calls CreatePod(ctx, pod), the pod carrying its annotations; the
\* goroutine waits for p.mu.
CreatePodCall(p, pods, anns) ==
    /\ pc[p] = "idle"
    /\ \E pod \in pods, ann \in anns :
        /\ pc' = [pc EXCEPT ![p] = "create_lock"]
        /\ loc' = [loc EXCEPT ![p] = [IdleLoc EXCEPT !.pod = pod, !.ann = ann]]
    /\ ret' = [ret EXCEPT ![p] = NoRet]
    /\ UNCHANGED <<podMappings, mu, poll, deviceApps, lastDone, cleanDelete, envVars, pureVars>>

\* p.mu.Lock(); selectDeviceForPod(pod): an error returns at once (deferred Unlock),
\* wrapped as "selecting device for pod".
CreatePodLock(p, reqs) ==
    /\ pc[p] = "create_lock"
    /\ mu = NoOne
    /\ \E req \in reqs :
        LET s == selectDeviceForPod(loc[p].ann) IN
        IF s.err
        THEN /\ Returns(p, loc, "CreatePod", "err_select")
             /\ UNCHANGED lastDone
             /\ UNCHANGED mu
        ELSE /\ mu' = p
             /\ Goto(p, "create_get", [loc EXCEPT ![p].dev = s.dev, ![p].req = req])
             /\ UNCHANGED lastDone
    /\ cleanDelete' = [cleanDelete EXCEPT ![KeyOf(loc[p].pod)] = FALSE]
    /\ UNCHANGED <<podMappings, poll, deviceApps, envVars, pureVars>>

\* PodManager.DeployPod, getDevice and the new application list; the lock is held.
CreateDeployGet(p) ==
    /\ pc[p] = "create_get"
    /\ \/ /\ Returns(p, loc, "CreatePod", "err")
          /\ mu' = NoOne
          /\ UNCHANGED lastDone
       \/ /\ Goto(p, "create_put",
                  [loc EXCEPT ![p].apps =
                      Append(FilterApps(deviceApps[loc[p].dev], AppOf(loc[p].pod)),
                             AppOf(loc[p].pod))])
          /\ UNCHANGED <<mu, lastDone>>
    /\ UNCHANGED <<podMappings, poll, deviceApps, cleanDelete, envVars, pureVars>>

\* Faulty variant of CreateDeployPut: the mapping is recorded although updateDevice failed.
CreateDeployPutRecordsFailure(p) ==
    /\ pc[p] = "create_put"
    /\ \/ /\ Returns(p, loc, "CreatePod", "err")
          /\ mu' = NoOne
          /\ UNCHANGED lastDone
          /\ deviceApps' \in PutFailed(deviceApps, loc[p].dev, loc[p].apps)
          /\ podMappings' = [x \in DOMAIN podMappings \cup {KeyOf(loc[p].pod)} |->
                                IF x = KeyOf(loc[p].pod)
                                THEN NewPodDeviceMapping(loc[p].pod, loc[p].dev)
                                ELSE podMappings[x]]
       \/ /\ deviceApps' = [deviceApps EXCEPT ![loc[p].dev] = loc[p].apps]
          /\ Goto(p, "create_fin", loc)
          /\ UNCHANGED <<mu, lastDone, podMappings>>
    /\ UNCHANGED <<poll, cleanDelete, envVars, pureVars>>

\* PodManager.DeployPod, updateDevice (PUT of the whole document); the lock is held.
CreateDeployPut(p) ==
    /\ pc[p] = "create_put"
    /\ \/ /\ Returns(p, loc, "CreatePod", "err")
          /\ mu' = NoOne
          /\ UNCHANGED lastDone
          /\ deviceApps' \in PutFailed(deviceApps, loc[p].dev, loc[p].apps)
       \/ /\ deviceApps' = [deviceApps EXCEPT ![loc[p].dev] = loc[p].apps]
          /\ Goto(p, "create_fin", loc)
          /\ UNCHANGED <<mu, lastDone>>
    /\ UNCHANGED <<podMappings, poll, cleanDelete, envVars, pureVars>>

\* The mapping is recorded with its initial Pending status; deferred Unlock; return nil.
CreatePodFinish(p) ==
    /\ pc[p] = "create_fin"
    /\ LET k == KeyOf(loc[p].pod) IN
        /\ podMappings' = PutMapping(podMappings, k,
                                     NewPodDeviceMapping(loc[p].pod, loc[p].dev))
        /\ Returns(p, FreezeRefs(loc, k), "CreatePod", "ok")
        /\ lastDone' = [lastDone EXCEPT ![k] = "create"]
    /\ mu' = NoOne
    /\ UNCHANGED <<poll, deviceApps, cleanDelete, envVars, pureVars>>

CreatePod(p, pods, anns, reqs) ==
    \/ CreatePodCall(p, pods, anns)
    \/ CreatePodLock(p, reqs)
    \/ CreateDeployGet(p)
    \/ CreateDeployPut(p)
    \/ CreatePodFinish(p)

----------------------------------------------------------------------------
(* Provider.DeletePod *)

\* The orchestrator calls DeletePod(ctx, pod); the goroutine waits for p.mu.
DeletePodCall(p, pods) ==
    /\ pc[p] = "idle"
    /\ \E pod \in pods :
        /\ pc' = [pc EXCEPT ![p] = "delete_lock"]
        /\ loc' = [loc EXCEPT ![p] = [IdleLoc EXCEPT !.pod = pod]]
    /\ ret' = [ret EXCEPT ![p] = NoRet]
    /\ UNCHANGED <<podMappings, mu, poll, deviceApps, lastDone, cleanDelete, envVars, pureVars>>

\* Faulty variant of DeletePodLock: a missing mapping is reported as an error.
DeletePodLockNotFound(p) ==
    /\ pc[p] = "delete_lock"
    /\ mu = NoOne
    /\ LET k == KeyOf(loc[p].pod) IN
        IF ~Mapped(k)
        THEN /\ Returns(p, loc, "DeletePod", "err")
             /\ UNCHANGED <<mu, lastDone, cleanDelete>>
        ELSE /\ mu' = p
             /\ Goto(p, "delete_get", [loc EXCEPT ![p].dev = podMappings[k].DeviceID])
             /\ UNCHANGED <<lastDone, cleanDelete>>
    /\ UNCHANGED <<podMappings, poll, deviceApps, envVars, pureVars>>

\* p.mu.Lock(); a missing mapping returns nil at once (deferred Unlock).
DeletePodLock(p) ==
    /\ pc[p] = "delete_lock"
    /\ mu = NoOne
    /\ LET k == KeyOf(loc[p].pod) IN
        IF ~Mapped(k)
        THEN /\ Returns(p, loc, "DeletePod", "ok")
             /\ lastDone' = [lastDone EXCEPT ![k] = AfterNoOp(lastDone[k])]
             /\ cleanDelete' = [cleanDelete EXCEPT ![k] = NotDeployed(AppOf(loc[p].pod))]
             /\ UNCHANGED mu
        ELSE /\ mu' = p
             /\ Goto(p, "delete_get", [loc EXCEPT ![p].dev = podMappings[k].DeviceID])
             /\ UNCHANGED <<lastDone, cleanDelete>>
    /\ UNCHANGED <<podMappings, poll, deviceApps, envVars, pureVars>>

\* PodManager.DeletePod, getDevice and the filtered list; an absent application is success.
DeleteRemoveGet(p) ==
    /\ pc[p] = "delete_get"
    /\ \/ /\ Returns(p, loc, "DeletePod", "err")
          /\ mu' = NoOne
          /\ UNCHANGED lastDone
       \/ /\ IF HasApp(deviceApps[loc[p].dev], AppOf(loc[p].pod))
             THEN Goto(p, "delete_put",
                       [loc EXCEPT ![p].apps =
                           FilterApps(deviceApps[loc[p].dev], AppOf(loc[p].pod))])
             ELSE Goto(p, "delete_fin", loc)
          /\ UNCHANGED <<mu, lastDone>>
    /\ UNCHANGED <<podMappings, poll, deviceApps, cleanDelete, envVars, pureVars>>

\* Faulty variant of DeleteRemovePut: the mapping is dropped although updateDevice failed.
DeleteRemovePutDropsMapping(p) ==
    /\ pc[p] = "delete_put"
    /\ \/ /\ Returns(p, FreezeRefs(loc, KeyOf(loc[p].pod)), "DeletePod", "err")
          /\ mu' = NoOne
          /\ UNCHANGED lastDone
          /\ deviceApps' \in PutFailed(deviceApps, loc[p].dev, loc[p].apps)
          /\ podMappings' = DeleteMapping(podMappings, KeyOf(loc[p].pod))
       \/ /\ deviceApps' = [deviceApps EXCEPT ![loc[p].dev] = loc[p].apps]
          /\ Goto(p, "delete_fin", loc)
          /\ UNCHANGED <<mu, lastDone, podMappings>>
    /\ UNCHANGED <<poll, cleanDelete, envVars, pureVars>>

\* PodManager.DeletePod, updateDevice (PUT of the whole document); the lock is held.
DeleteRemovePut(p) ==
    /\ pc[p] = "delete_put"
    /\ \/ /\ Returns(p, loc, "DeletePod", "err")
          /\ mu' = NoOne
          /\ UNCHANGED lastDone
          /\ deviceApps' \in PutFailed(deviceApps, loc[p].dev, loc[p].apps)
       \/ /\ deviceApps' = [deviceApps EXCEPT ![loc[p].dev] = loc[p].apps]
          /\ Goto(p, "delete_fin", loc)
          /\ UNCHANGED <<mu, lastDone>>
    /\ UNCHANGED <<podMappings, poll, cleanDelete, envVars, pureVars>>

\* delete(p.podMappings, podKey); deferred Unlock; return nil.
DeletePodFinish(p) ==
    /\ pc[p] = "delete_fin"
    /\ LET k == KeyOf(loc[p].pod) IN
        /\ podMappings' = DeleteMapping(podMappings, k)
        /\ Returns(p, FreezeRefs(loc, k), "DeletePod", "ok")
        /\ lastDone' = [lastDone EXCEPT ![k] = "delete"]
        /\ cleanDelete' = [cleanDelete EXCEPT ![k] = NotDeployed(AppOf(loc[p].pod))]
    /\ mu' = NoOne
    /\ UNCHANGED <<poll, deviceApps, envVars, pureVars>>

DeletePod(p, pods) ==
    \/ DeletePodCall(p, pods)
    \/ DeletePodLock(p)
    \/ DeleteRemoveGet(p)
    \/ DeleteRemovePut(p)
    \/ DeletePodFinish(p)

----------------------------------------------------------------------------
(* Provider.UpdatePod *)

\* p.mu.RLock(); mapping := p.podMappings[podKey]; p.mu.RUnlock(); nil is "not found".
UpdatePodRead(p, pods) ==
    /\ pc[p] = "idle"
    /\ mu = NoOne
    /\ \E pod \in pods :
        LET k == KeyOf(pod) IN
        /\ cleanDelete' = [cleanDelete EXCEPT ![k] = FALSE]
        /\ IF ~Mapped(k)
           THEN Returns(p, loc, "UpdatePod", "err")
           ELSE /\ pc' = [pc EXCEPT ![p] = "update_del_get"]
                /\ loc' = [loc EXCEPT ![p] = [IdleLoc EXCEPT !.pod = pod,
                                                 !.dev = podMappings[k].DeviceID]]
                /\ ret' = [ret EXCEPT ![p] = NoRet]
    /\ UNCHANGED <<podMappings, mu, poll, deviceApps, lastDone, envVars, pureVars>>

\* PodManager.UpdatePod: _ = pm.DeletePod(...), its getDevice. No lock is held.
UpdateRemoveGet(p) ==
    /\ pc[p] = "update_del_get"
    /\ \/ Goto(p, "update_dep_get", [loc EXCEPT ![p].delRes = "err"])
       \/ IF HasApp(deviceApps[loc[p].dev], AppOf(loc[p].pod))
          THEN Goto(p, "update_del_put",
                    [loc EXCEPT ![p].apps =
                        FilterApps(deviceApps[loc[p].dev], AppOf(loc[p].pod))])
          ELSE Goto(p, "update_dep_get", [loc EXCEPT ![p].delRes = "absent"])
    /\ UNCHANGED <<podMappings, mu, poll, deviceApps, lastDone, cleanDelete, envVars, pureVars>>

\* PodManager.UpdatePod: _ = pm.DeletePod(...), its updateDevice; the error is dropped.
UpdateRemovePut(p) ==
    /\ pc[p] = "update_del_put"
    /\ \/ /\ Goto(p, "update_dep_get", [loc EXCEPT ![p].delRes = "err"])
          /\ deviceApps' \in PutFailed(deviceApps, loc[p].dev, loc[p].apps)
       \/ /\ deviceApps' = [deviceApps EXCEPT ![loc[p].dev] = loc[p].apps]
          /\ Goto(p, "update_dep_get", [loc EXCEPT ![p].delRes = "ok"])
    /\ UNCHANGED <<podMappings, mu, poll, lastDone, cleanDelete, envVars, pureVars>>

\* PodManager.UpdatePod: return pm.DeployPod(...), its getDevice.
UpdateDeployGet(p) ==
    /\ pc[p] = "update_dep_get"
    /\ \/ Returns(p, loc, "UpdatePod", "err")
       \/ Goto(p, "update_dep_put",
               [loc EXCEPT ![p].apps =
                   Append(FilterApps(deviceApps[loc[p].dev], AppOf(loc[p].pod)),
                          AppOf(loc[p].pod))])
    /\ UNCHANGED <<podMappings, mu, poll, deviceApps, lastDone, cleanDelete, envVars, pureVars>>

\* Faulty variant of UpdateDeployPut: a successful update puts the mapping back to its
\* initial Pending status.
UpdateDeployPutResetsStatus(p) ==
    /\ pc[p] = "update_dep_put"
    /\ \/ /\ Returns(p, loc, "UpdatePod", "err")
          /\ deviceApps' \in PutFailed(deviceApps, loc[p].dev, loc[p].apps)
          /\ UNCHANGED podMappings
       \/ /\ deviceApps' = [deviceApps EXCEPT ![loc[p].dev] = loc[p].apps]
          /\ Returns(p, loc, "UpdatePod", "ok")
          /\ podMappings' = [k \in DOMAIN podMappings |->
                                IF k = KeyOf(loc[p].pod)
                                THEN [podMappings[k] EXCEPT !.Status = ScheduledStatus]
                                ELSE podMappings[k]]
    /\ UNCHANGED <<mu, poll, lastDone, cleanDelete, envVars, pureVars>>

\* PodManager.UpdatePod: return pm.DeployPod(...), its updateDevice.
UpdateDeployPut(p) ==
    /\ pc[p] = "update_dep_put"
    /\ \/ /\ Returns(p, loc, "UpdatePod", "err")
          /\ deviceApps' \in PutFailed(deviceApps, loc[p].dev, loc[p].apps)
       \/ /\ deviceApps' = [deviceApps EXCEPT ![loc[p].dev] = loc[p].apps]
          /\ Returns(p, loc, "UpdatePod", "ok")
    /\ UNCHANGED <<podMappings, mu, poll, lastDone, cleanDelete, envVars, pureVars>>

UpdatePod(p, pods) ==
    \/ UpdatePodRead(p, pods)
    \/ UpdateRemoveGet(p)
    \/ UpdateRemovePut(p)
    \/ UpdateDeployGet(p)
    \/ UpdateDeployPut(p)

----------------------------------------------------------------------------
(* Provider.GetPod *)

\* First read section: mapping := p.podMappings[podKey]; nil is "pod not found".
GetPodLookup(p, pods) ==
    /\ pc[p] = "idle"
    /\ mu = NoOne
    /\ \E pod \in pods :
        IF ~Mapped(KeyOf(pod))
        THEN Returns(p, loc, "GetPod", "err")
        ELSE /\ pc' = [pc EXCEPT ![p] = "getpod_status"]
             /\ loc' = [loc EXCEPT ![p] = [IdleLoc EXCEPT !.pod = pod, !.live = TRUE,
                                              !.dev = podMappings[KeyOf(pod)].DeviceID]]
             /\ ret' = [ret EXCEPT ![p] = NoRet]
    /\ UNCHANGED <<podMappings, mu, poll, deviceApps, lastDone, cleanDelete, envVars, pureVars>>

\* Second read section: cachedStatus := mapping.Status; a non-nil status is returned.
\* A nil status would go on to query the backend (pc "getpod_fallback").
GetPodCached(p) ==
    /\ pc[p] = "getpod_status"
    /\ mu = NoOne
    /\ LET cachedStatus == IF loc[p].live
                           THEN podMappings[KeyOf(loc[p].pod)].Status
                           ELSE loc[p].status IN
        IF cachedStatus # NilStatus
        THEN Returns(p, loc, "GetPod", "ok")
        ELSE Goto(p, "getpod_fallback", loc)
    /\ UNCHANGED <<podMappings, mu, poll, deviceApps, lastDone, cleanDelete, envVars, pureVars>>

GetPod(p, pods) ==
    \/ GetPodLookup(p, pods)
    \/ GetPodCached(p)

\* Provider.GetPods: under the read lock, one pod per mapping with the cached status
\* copied in when there is one; a pod of a mapping without one has an empty status.
GetPods(p) ==
    /\ pc[p] = "idle"
    /\ mu = NoOne
    /\ Returns(p, loc, "GetPods",
               IF \E k \in DOMAIN podMappings : podMappings[k].Status = NilStatus
               THEN "empty_status"
               ELSE "ok")
    /\ UNCHANGED <<podMappings, mu, poll, deviceApps, lastDone, cleanDelete, envVars, pureVars>>

----------------------------------------------------------------------------
(* Provider.reconcilePodStatus, one tick of syncPodStatusLoop *)

\* The orders in which ranging over the map may list its entries.
SnapshotsOf(pm) ==
    { s \in UNION { [1..n -> DOMAIN pm] : n \in {Cardinality(DOMAIN pm)} } :
        \A i, j \in 1..Len(s) : i # j => s[i] # s[j] }

SnapEntry(m) ==
    [PodKey |-> m.PodKey, Namespace |-> m.Namespace, Name |-> m.Name,
     PodUID |-> m.PodUID, DeviceID |-> m.DeviceID]

\* What the loop does after an entry: the next entry, or the tick is over.
AfterEntry(pl) ==
    [pl EXCEPT !.snap = Tail(pl.snap), !.status = NilStatus, !.report = NoReport,
               !.pc = IF Len(pl.snap) > 1 THEN "get" ELSE "idle"]

\* p.mu.RLock(); copy the mappings into a slice; p.mu.RUnlock().
PollSnapshot ==
    /\ poll.pc = "idle"
    /\ mu = NoOne
    /\ DOMAIN podMappings # {}
    /\ \E s \in SnapshotsOf(podMappings) :
        poll' = [pc |-> "get", snap |-> [i \in 1..Len(s) |-> SnapEntry(podMappings[s[i]])],
                 status |-> NilStatus, sawDisc |-> {}, report |-> NoReport,
                 failed |-> FALSE]
    /\ UNCHANGED <<podMappings, mu, pc, loc, ret, deviceApps, lastDone, cleanDelete, envVars, pureVars>>

\* What device.Status may hold for an application when the poll asks: nothing, or
\* one of the status strings.
ReportsFor(appName) ==
    {NilDeviceStatus} \cup
    { [nil |-> FALSE, Applications |-> <<[Name |-> appName, Status |-> st]>>] :
        st \in BackendStatuses }

\* The status string of the application in device.Status, NoReport if it has none.
ReportOf(status, appName) ==
    IF status.nil THEN NoReport ELSE FirstReport(status.Applications, appName).Status

\* Faulty variant of PollGetPodStatus: a failed query is turned into a Failed status
\* that the loop goes on to write.
PollGetPodStatusFlipsToFailed ==
    /\ poll.pc = "get"
    /\ \E getErr \in BOOLEAN, rs \in ReportsFor(AppName(poll.snap[1].Namespace, poll.snap[1].Name)) :
        LET e == poll.snap[1]
            appName == AppName(e.Namespace, e.Name)
            seen == IF conn[e.DeviceID] = "Disconnected"
                    THEN poll.sawDisc \cup {<<e.DeviceID, discAt[e.DeviceID]>>}
                    ELSE poll.sawDisc
            r == GetPodStatus([err |-> getErr, apps |-> deviceApps[e.DeviceID],
                               status |-> rs], appName)
        IN  IF r.err # ""
            THEN poll' = [poll EXCEPT !.pc = "write", !.sawDisc = seen, !.failed = TRUE,
                            !.status = [Phase |-> "Failed", Type |-> "Ready",
                                        Status |-> "False", Reason |-> "BackendError"]]
            ELSE poll' = [poll EXCEPT !.pc = "write", !.sawDisc = seen, !.failed = FALSE,
                            !.status = r.status, !.report = ReportOf(rs, appName)]
    /\ UNCHANGED <<podMappings, mu, pc, loc, ret, deviceApps, lastDone, cleanDelete, envVars, pureVars>>

\* Faulty variant of PollGetPodStatus: an application missing from the device's spec is
\* dispatched again by the poll.
PollGetPodStatusRedeploys ==
    /\ poll.pc = "get"
    /\ \E getErr \in BOOLEAN, rs \in ReportsFor(AppName(poll.snap[1].Namespace, poll.snap[1].Name)) :
        LET e == poll.snap[1]
            appName == AppName(e.Namespace, e.Name)
            seen == IF conn[e.DeviceID] = "Disconnected"
                    THEN poll.sawDisc \cup {<<e.DeviceID, discAt[e.DeviceID]>>}
                    ELSE poll.sawDisc
            r == GetPodStatus([err |-> getErr, apps |-> deviceApps[e.DeviceID],
                               status |-> rs], appName)
        IN  /\ IF r.err # ""
               THEN poll' = [AfterEntry(poll) EXCEPT !.sawDisc = seen, !.failed = TRUE]
               ELSE poll' = [poll EXCEPT !.pc = "write", !.sawDisc = seen, !.failed = FALSE,
                               !.status = r.status, !.report = ReportOf(rs, appName)]
            /\ deviceApps' = IF ~getErr /\ ~HasApp(deviceApps[e.DeviceID], appName)
                             THEN [deviceApps EXCEPT ![e.DeviceID] = Append(@, appName)]
                             ELSE deviceApps
    /\ UNCHANGED <<podMappings, mu, pc, loc, ret, lastDone, cleanDelete, envVars, pureVars>>

\* PodManager.GetPodStatus for the entry at hand, on the device document the backend
\* answers with at that moment (getDevice may fail; the spec's applications are the
\* device's; the runtime status is whatever the backend reports). On an error the loop
\* continues with the next entry. No lock is held.
PollGetPodStatus ==
    /\ poll.pc = "get"
    /\ \E getErr \in BOOLEAN, rs \in ReportsFor(AppName(poll.snap[1].Namespace, poll.snap[1].Name)) :
        LET e == poll.snap[1]
            appName == AppName(e.Namespace, e.Name)
            seen == IF conn[e.DeviceID] = "Disconnected"
                    THEN poll.sawDisc \cup {<<e.DeviceID, discAt[e.DeviceID]>>}
                    ELSE poll.sawDisc
            r == GetPodStatus([err |-> getErr, apps |-> deviceApps[e.DeviceID],
                               status |-> rs], appName)
        IN  IF r.err # ""
            THEN poll' = [AfterEntry(poll) EXCEPT !.sawDisc = seen, !.failed = TRUE]
            ELSE poll' = [poll EXCEPT !.pc = "write", !.sawDisc = seen, !.failed = FALSE,
                            !.status = r.status, !.report = ReportOf(rs, appName)]
    /\ UNCHANGED <<podMappings, mu, pc, loc, ret, deviceApps, lastDone, cleanDelete, envVars, pureVars>>

\* Faulty variant of PollWriteStatus: the poll drops the mapping once the deadline of
\* the device's last disconnection has passed, whether or not the device came back.
PollWriteStatusExpires ==
    /\ poll.pc = "write"
    /\ mu = NoOne
    /\ LET k == poll.snap[1].PodKey
           d == poll.snap[1].DeviceID IN
        podMappings' = IF Mapped(k)
                       THEN IF discAt[d] >= 0 /\ now >= discAt[d] + ReconnectTimeout
                            THEN [x \in DOMAIN podMappings \ {k} |-> podMappings[x]]
                            ELSE [podMappings EXCEPT ![k].Status = poll.status]
                       ELSE podMappings
    /\ poll' = AfterEntry(poll)
    /\ UNCHANGED <<mu, pc, loc, ret, deviceApps, lastDone, cleanDelete, envVars, pureVars>>

\* Faulty variant of PollWriteStatus: the status the query returned is dropped.
PollWriteStatusKeepsOld ==
    /\ poll.pc = "write"
    /\ mu = NoOne
    /\ podMappings' = podMappings
    /\ poll' = AfterEntry(poll)
    /\ UNCHANGED <<mu, pc, loc, ret, deviceApps, lastDone, cleanDelete, envVars, pureVars>>

\* Faulty variant of PollWriteStatus: the status is written under the key whether or
\* not the key is still mapped.
PollWriteStatusResurrects ==
    /\ poll.pc = "write"
    /\ mu = NoOne
    /\ LET e == poll.snap[1] IN
        podMappings' = PutMapping(podMappings, e.PodKey,
                           [NewPodDeviceMapping([Namespace |-> e.Namespace, Name |-> e.Name,
                                                 UID |-> e.PodUID], e.DeviceID)
                               EXCEPT !.Status = poll.status])
    /\ poll' = AfterEntry(poll)
    /\ UNCHANGED <<mu, pc, loc, ret, deviceApps, lastDone, cleanDelete, envVars, pureVars>>

\* p.mu.Lock(); if the key is still mapped its Status is replaced; p.mu.Unlock().
PollWriteStatus ==
    /\ poll.pc = "write"
    /\ mu = NoOne
    /\ LET k == poll.snap[1].PodKey IN
        podMappings' = IF Mapped(k)
                       THEN [podMappings EXCEPT ![k].Status = poll.status]
                       ELSE podMappings
    /\ poll' = AfterEntry(poll)
    /\ UNCHANGED <<mu, pc, loc, ret, deviceApps, lastDone, cleanDelete, envVars, pureVars>>

reconcilePodStatus ==
    \/ PollSnapshot
    \/ PollGetPodStatus
    \/ PollWriteStatus

----------------------------------------------------------------------------
(* Environment: the clock and the devices' connections *)

provVars == <<podMappings, mu, pc, loc, ret, poll, deviceApps, lastDone, cleanDelete>>

Tick ==
    /\ now < MaxTime
    /\ now' = now + 1
    /\ UNCHANGED <<provVars, pureVars, conn, discAt, reconnAt>>

DeviceDisconnects(d) ==
    /\ conn[d] = "Connected"
    /\ conn' = [conn EXCEPT ![d] = "Disconnected"]
    /\ discAt' = [discAt EXCEPT ![d] = now]
    /\ UNCHANGED <<provVars, pureVars, now, reconnAt>>

DeviceReconnects(d) ==
    /\ conn[d] = "Disconnected"
    /\ conn' = [conn EXCEPT ![d] = "Connected"]
    /\ reconnAt' = [reconnAt EXCEPT ![d] = now]
    /\ UNCHANGED <<provVars, pureVars, now, discAt>>

----------------------------------------------------------------------------
(* Specifications *)

\* Spec: two callers, both pods, pods that name no device (all go to the default device).
Next ==
    \E p \in Callers :
        \/ CreatePod(p, PodIdents, UnroutedAnnotations, Requests)
        \/ UpdatePod(p, PodIdents)
        \/ DeletePod(p, PodIdents)

Spec == Init /\ [][Next]_vars

\* SpecPoll: one caller, one pod, every annotation map, and the reconciliation loop.
NextPoll ==
    \/ \E p \in OneCaller :
        \/ CreatePod(p, OnePod, AnnotationSets, Requests)
        \/ UpdatePod(p, OnePod)
        \/ DeletePod(p, OnePod)
        \/ GetPod(p, OnePod)
        \/ GetPods(p)
    \/ reconcilePodStatus

SpecPoll == Init /\ [][NextPoll]_vars

\* SpecDisc: one caller, one pod on the default device, the reconciliation loop, the
\* clock, and the default device losing and regaining its connection.
NextDisc ==
    \/ \E p \in OneCaller :
        \/ CreatePod(p, OnePod, NoAnnotations, SmallRequests)
        \/ DeletePod(p, OnePod)
    \/ reconcilePodStatus
    \/ Tick
    \/ DeviceDisconnects(defaultDeviceID)
    \/ DeviceReconnects(defaultDeviceID)

SpecDisc == Init /\ [][NextDisc]_vars

\* SpecRestart: the provider has just been started again (NewProvider: an empty mapping
\* table) while pods it had deployed before are still in the specs of their devices
\* and still known to the orchestrator, which goes on calling the provider.
DeployedBeforeRestart ==
    { da \in [DeviceIDs -> {<<>>, <<"ns-a">>}] : \E d \in DeviceIDs : da[d] # <<>> }

InitRestart ==
    /\ tok = NewTokenManager
    /\ trk = NoTrk
    /\ sel = NoSel
    /\ conv = NoConv
    /\ podMappings = EmptyMappings
    /\ mu = NoOne
    /\ pc = [p \in Callers |-> "idle"]
    /\ loc = [p \in Callers |-> IdleLoc]
    /\ ret = [p \in Callers |-> NoRet]
    /\ poll = IdlePoll
    /\ deviceApps \in DeployedBeforeRestart
    /\ lastDone = [k \in Keys |-> "none"]
    /\ cleanDelete = [k \in Keys |-> FALSE]
    /\ conn = [d \in DeviceIDs |-> "Connected"]
    /\ now = 0
    /\ discAt = [d \in DeviceIDs |-> -1]
    /\ reconnAt = [d \in DeviceIDs |-> -1]

SpecRestart == InitRestart /\ [][NextPoll]_vars

----------------------------------------------------------------------------
(* Device.HasSufficientResources applied to the quantities of the model *)

\* CPU quantities in millicores and memory quantities in GiB.
CPUQuantities == {0, 500, 1500, 2000, 4000, 100000}
MemoryQuantities == {0, 4, 8, 16}

\* A models.Device, the fields the selection reads.
Device(id, fleet, labels, cpu, memory, phase, connection) ==
    [ID |-> id, FleetID |-> fleet, Labels |-> labels,
     Allocatable |-> [CPU |-> cpu, Memory |-> memory],
     Phase |-> phase, ConnectionState |-> connection]

\* A device, with something allocatable, and a request are at hand.
InitResources ==
    /\ InitProvider
    /\ trk = NoTrk
    /\ conv = NoConv
    /\ \E acpu \in CPUQuantities \ {0}, amem \in MemoryQuantities \ {0},
          cpu \in CPUQuantities, memory \in MemoryQuantities :
        sel = [pc |-> "ask",
               dev |-> Device("dev-1", "", <<>>, acpu, amem, "Ready", "Connected"),
               cpu |-> cpu, memory |-> memory, ok |-> FALSE]

\* ok := d.HasSufficientResources(cpu, memory)
HasSufficientResourcesCall ==
    /\ sel.pc = "ask"
    /\ sel' = [sel EXCEPT !.pc = "answered",
                          !.ok = HasSufficientResources(sel.dev, sel.cpu, sel.memory)]
    /\ UNCHANGED <<provVars, envVars, conv, tok, trk>>

NextResources == HasSufficientResourcesCall

SpecResources == InitResources /\ [][NextResources]_vars

----------------------------------------------------------------------------
(* DeploymentTarget.SelectDevice applied to the registries of the model *)

SelDeviceIDs == {"dev-1", "dev-2"}
Fleets == {"fleet-1", "fleet-2"}

\* Label maps of devices, and selector maps of targets (a selector may ask for an
\* empty value).
LabelSets ==
    { <<>>,
      [k \in {"zone"} |-> "b"],
      [k \in {"zone", "tier"} |-> IF k = "zone" THEN "b" ELSE "x"] }

SelectorSets == LabelSets \cup { [k \in {"zone"} |-> ""] }

ReadyStates ==
    { [Phase |-> "Ready", ConnectionState |-> "Connected"],
      [Phase |-> "NotReady", ConnectionState |-> "Connected"],
      [Phase |-> "Ready", ConnectionState |-> "Disconnected"] }

\* The devices of a registry: allocatable CPU 1500m, 2 or 4 cores, memory 8Gi.
Devices ==
    { Device(id, fleet, labels, cpu, 8, r.Phase, r.ConnectionState) :
        id \in SelDeviceIDs, fleet \in Fleets, labels \in LabelSets,
        cpu \in {1500, 2000, 4000}, r \in ReadyStates }

\* Device lists: up to two devices, no ID twice, in either order.
DeviceLists ==
    {<<>>} \cup { <<d>> : d \in Devices }
           \cup { l \in { <<d, e>> : d \in Devices, e \in Devices } : l[1].ID # l[2].ID }

\* podsByDevice: no pods anywhere, or one pod on dev-1.
PodCounts == { <<>>, [id \in {"dev-1"} |-> 1] }

\* Targets: a device that may be listed, one that never is, or none; with a device ID
\* the other fields are set or not, without one they take every value.
Targets ==
    { [DeviceID |-> id, FleetID |-> f.fleet, Selectors |-> f.selectors] :
        id \in {"dev-1", "dev-3"},
        f \in { [fleet |-> Nil, selectors |-> <<>>],
                [fleet |-> "fleet-2", selectors |-> [k \in {"zone"} |-> "b"]] } }
    \cup
    { [DeviceID |-> Nil, FleetID |-> fleet, Selectors |-> selectors] :
        fleet \in {Nil, "fleet-1"}, selectors \in SelectorSets }

NoOut == [err |-> "", id |-> Nil]

\* A registry snapshot, the pod counts and a target are at hand.
InitSelect ==
    /\ InitProvider
    /\ trk = NoTrk
    /\ conv = NoConv
    /\ \E devices \in DeviceLists, pods \in PodCounts, dt \in Targets :
        sel = [pc |-> "ready", devices |-> devices, podsByDevice |-> pods,
               target |-> dt, out |-> NoOut, again |-> NoOut]

\* The selector orders of the matchesDevice calls of one SelectDevice.
OrdersFor(dt, devices) == [1..Len(devices) -> KeyOrders(dt.Selectors)]

\* device, err := dt.SelectDevice(devices, podsByDevice)
SelectDeviceCall ==
    /\ sel.pc = "ready"
    /\ \E orders \in OrdersFor(sel.target, sel.devices) :
        sel' = [sel EXCEPT !.pc = "selected",
                   !.out = SelectDevice(sel.target, sel.devices, sel.podsByDevice, orders)]
    /\ UNCHANGED <<provVars, envVars, conv, tok, trk>>

\* The same call once more, on the same snapshot.
SelectDeviceAgain ==
    /\ sel.pc = "selected"
    /\ \E orders \in OrdersFor(sel.target, sel.devices) :
        sel' = [sel EXCEPT !.pc = "repeated",
                   !.again = SelectDevice(sel.target, sel.devices, sel.podsByDevice, orders)]
    /\ UNCHANGED <<provVars, envVars, conv, tok, trk>>

NextSelect ==
    \/ SelectDeviceCall
    \/ SelectDeviceAgain

SpecSelect == InitSelect /\ [][NextSelect]_vars

----------------------------------------------------------------------------
(* mapFlightctlStatusToPodStatus applied to the status strings of the model *)

\* The upper-case form of a character, used to write a word in every mix of cases.
ToUpperChar(c) ==
    IF \E i \in DOMAIN Lower : Lower[i] = c
    THEN Upper[CHOOSE i \in DOMAIN Lower : Lower[i] = c]
    ELSE c

\* The word w with the characters at the positions in m in upper case.
Recase(w, m) == [i \in DOMAIN w |-> IF i \in m THEN ToUpperChar(w[i]) ELSE w[i]]

\* The strings of the switch's cases.
TableWords == {running, pending, starting, failed, error, completed, succeeded, stopped}

\* Strings of no case of the switch: the empty string, other words, a prefix, an
\* extension and a padded form of a case's string.
OtherWords ==
    {<<>>,
     <<"b", "o", "g", "u", "s">>,
     <<"u", "n", "k", "n", "o", "w", "n">>,
     <<"r", "u", "n">>,
     <<"r", "u", "n", "n", "i", "n", "g", "g">>,
     <<" ", "r", "u", "n", "n", "i", "n", "g">>,
     <<"s", "t", "o", "p">>,
     <<"f", "a", "i", "l">>,
     <<"d", "o", "n", "e">>,
     <<"o", "k">>,
     <<"1">>}

\* appStatus.Status: every word above in every mix of upper and lower case.
StatusStrings ==
    UNION { { Recase(w, m) : m \in SUBSET DOMAIN w } : w \in TableWords \cup OtherWords }

InitMap ==
    /\ InitProvider
    /\ trk = NoTrk
    /\ sel = NoSel
    /\ \E st \in StatusStrings : conv = [pc |-> "ask", status |-> st, out |-> NilStatus]

\* One call of mapFlightctlStatusToPodStatus.
MapStatusCall ==
    /\ conv.pc = "ask"
    /\ conv' = [conv EXCEPT !.pc = "mapped",
                            !.out = mapFlightctlStatusToPodStatus(conv.status)]
    /\ UNCHANGED <<provVars, envVars, sel, tok, trk>>

NextMap == MapStatusCall

SpecMap == InitMap /\ [][NextMap]_vars

----------------------------------------------------------------------------
(* PodManager.GetPodStatus applied to the device documents of the model *)

\* device.Spec.Applications, by name.
SpecApplications == {<<>>, <<"ns-a">>, <<"ns-b">>, <<"ns-b", "ns-a">>}

\* An entry of device.Status.Applications.
AppReports ==
    [Name : {"ns-a", "ns-b"},
     Status : {running, <<"R", "U", "N", "N", "I", "N", "G">>, <<"b", "o", "g", "u", "s">>, <<>>}]

\* device.Status: nil, or with up to two entries.
RuntimeStatuses ==
    {NilDeviceStatus} \cup
    { [nil |-> FALSE, Applications |-> a] :
        a \in {<<>>} \cup { <<r>> : r \in AppReports } \cup (AppReports \X AppReports) }

\* What getDevice answers with.
DeviceDocuments == [err : BOOLEAN, apps : SpecApplications, status : RuntimeStatuses]

InitStatus ==
    /\ InitProvider
    /\ trk = NoTrk
    /\ sel = NoSel
    /\ \E device \in DeviceDocuments :
        conv = [pc |-> "query", device |-> device, appName |-> AppName("ns", "a"),
                out |-> [err |-> "", status |-> NilStatus]]

\* One call of GetPodStatus.
GetPodStatusCall ==
    /\ conv.pc = "query"
    /\ conv' = [conv EXCEPT !.pc = "answered",
                            !.out = GetPodStatus(conv.device, conv.appName)]
    /\ UNCHANGED <<provVars, envVars, sel, tok, trk>>

NextStatus == GetPodStatusCall

SpecStatus == InitStatus /\ [][NextStatus]_vars

----------------------------------------------------------------------------
(* oauth2Transport.RoundTrip, tokenManager.getToken and tokenManager.fetchToken *)

\* The lifetimes (expires_in, seconds) the token endpoint may report.
ExpiresIns == {0, 30, 60, 61, 120}

\* The clock advances by these many seconds at a time.
ClockSteps == {30}

\* Faulty variant of TokenValid: the expiry is not looked at.
TokenValidNonEmpty(tm) == tm.accessToken # 0

\* tm.accessToken != "" && time.Now().Before(tm.expiresAt)
TokenValid(tm) == tm.accessToken # 0 /\ tm.now < tm.expiresAt

\* The cached token as a call of RoundTrip takes it from the cache.
CachedToken(tm) ==
    [id |-> tm.accessToken, cached |-> TRUE, at |-> tm.now,
     acquiredAt |-> tm.acquiredAt, expiresIn |-> tm.expiresIn]

\* Faulty variant of StoredLifetime: the margin is never taken off.
StoredLifetimeNoMargin(e) == e

\* fetchToken: the lifetime kept for a reported expires_in, 60 seconds less when it
\* is more than 60 seconds.
StoredLifetime(e) == IF e > 60 THEN e - 60 ELSE e

RoundTripVars == <<provVars, envVars, sel, conv, trk>>

\* A goroutine sends a request through the client: RoundTrip is entered.
RoundTripCall(r) ==
    /\ tok.pc[r] = "idle"
    /\ tok' = [tok EXCEPT !.pc[r] = "get_token", !.token[r] = NoToken, !.res[r] = "",
                          !.served[r] = FALSE]
    /\ UNCHANGED RoundTripVars

\* getToken: under the read lock, a valid cached token is returned; otherwise
\* fetchToken is called.
GetTokenCheck(r) ==
    /\ tok.pc[r] = "get_token"
    /\ tok.mu = NoOne
    /\ tok' = IF TokenValid(tok)
              THEN [tok EXCEPT !.pc[r] = "send", !.token[r] = CachedToken(tok)]
              ELSE [tok EXCEPT !.pc[r] = "fetch_lock"]
    /\ UNCHANGED RoundTripVars

\* Faulty variant of FetchTokenLock: no second check once the lock is held.
FetchTokenLockNoDoubleCheck(r) ==
    /\ tok.pc[r] = "fetch_lock"
    /\ tok.mu = NoOne
    /\ tok.requests < MaxTokenRequests
    /\ tok' = [tok EXCEPT !.pc[r] = "fetch_http", !.mu = r, !.requests = @ + 1]
    /\ UNCHANGED RoundTripVars

\* fetchToken: the write lock is taken and the cache checked again; a valid token is
\* returned (the lock is released), otherwise the token request is sent, the lock held.
FetchTokenLock(r) ==
    /\ tok.pc[r] = "fetch_lock"
    /\ tok.mu = NoOne
    /\ IF TokenValid(tok)
       THEN tok' = [tok EXCEPT !.pc[r] = "send", !.token[r] = CachedToken(tok)]
       ELSE /\ tok.requests < MaxTokenRequests
            /\ tok' = [tok EXCEPT !.pc[r] = "fetch_http", !.mu = r, !.requests = @ + 1]
    /\ UNCHANGED RoundTripVars

\* fetchToken: the token endpoint's answer. A failed request, a status other than 200,
\* an undecodable body or an empty access token is an error, and RoundTrip returns it
\* without sending the request. Otherwise the token and its expiry are stored and the
\* token returned. The lock is released either way.
FetchTokenResponse(r) ==
    /\ tok.pc[r] = "fetch_http"
    /\ \/ tok' = [tok EXCEPT !.pc[r] = "idle", !.res[r] = "err", !.mu = NoOne]
       \/ \E e \in ExpiresIns :
            tok' = [tok EXCEPT
                      !.accessToken = tok.requests,
                      !.expiresAt = tok.now + StoredLifetime(e),
                      !.acquiredAt = tok.now,
                      !.expiresIn = e,
                      !.mu = NoOne,
                      !.pc[r] = "send",
                      !.token[r] = [id |-> tok.requests, cached |-> FALSE, at |-> tok.now,
                                    acquiredAt |-> tok.now, expiresIn |-> e],
                      !.served = [x \in Requesters |->
                                    IF tok.pc[x] = "fetch_lock" THEN TRUE
                                    ELSE tok.served[x]]]
    /\ UNCHANGED RoundTripVars

\* RoundTrip: the Authorization header is set on a clone and the request sent.
SendRequest(r) ==
    /\ tok.pc[r] = "send"
    /\ tok' = [tok EXCEPT !.pc[r] = "idle", !.res[r] = "sent"]
    /\ UNCHANGED RoundTripVars

\* Time passes.
TokenClock ==
    /\ \E d \in ClockSteps :
        /\ tok.now + d <= MaxTokenTime
        /\ tok' = [tok EXCEPT !.now = @ + d]
    /\ UNCHANGED RoundTripVars

RoundTrip(r) ==
    \/ RoundTripCall(r)
    \/ GetTokenCheck(r)
    \/ FetchTokenLock(r)
    \/ FetchTokenResponse(r)
    \/ SendRequest(r)

NextToken ==
    \/ \E r \in Requesters : RoundTrip(r)
    \/ TokenClock

SpecToken == Init /\ [][NextToken]_vars

----------------------------------------------------------------------------
(* models.TimeoutTracker: NewTimeoutTracker, IsExpired and Cancel *)

\* Durations handed to NewTimeoutTracker, in seconds.
Durations == {-60, 0, 59, 60, 61, 300, 1799, 1800, 1801, 3600}

\* time.Now() at the call of NewTimeoutTracker, in seconds.
TrackerTimes == {0, 1000}

\* The clock advances by these many seconds at a time.
TrackerClockSteps == {600}

\* The affectedPods argument.
AffectedPodSets == {<<>>, <<"ns/a">>, <<"ns/a", "ns/b">>}

\* A nil *TimeoutTracker.
NilTracker ==
    [DeviceID |-> Nil, DisconnectedAt |-> 0, TimeoutDuration |-> 0, TimeoutAt |-> 0,
     AffectedPods |-> <<>>, TimerCancelFunc |-> "nil"]

\* Faulty variant of NewTimeoutTracker: the lower bound is exclusive.
NewTimeoutTrackerStrict(deviceID, duration, affectedPods, t) ==
    IF duration <= 60
    THEN [err |-> "timeout duration must be >= 1 minute", tracker |-> NilTracker]
    ELSE IF duration > 30 * 60
    THEN [err |-> "timeout duration must be <= 30 minutes", tracker |-> NilTracker]
    ELSE [err |-> "",
          tracker |-> [DeviceID |-> deviceID, DisconnectedAt |-> t,
                       TimeoutDuration |-> duration, TimeoutAt |-> t + duration,
                       AffectedPods |-> affectedPods, TimerCancelFunc |-> "nil"]]

\* models.NewTimeoutTracker, t being time.Now(); a minute is 60 seconds.
NewTimeoutTracker(deviceID, duration, affectedPods, t) ==
    IF duration < 60
    THEN [err |-> "timeout duration must be >= 1 minute", tracker |-> NilTracker]
    ELSE IF duration > 30 * 60
    THEN [err |-> "timeout duration must be <= 30 minutes", tracker |-> NilTracker]
    ELSE [err |-> "",
          tracker |-> [DeviceID |-> deviceID, DisconnectedAt |-> t,
                       TimeoutDuration |-> duration, TimeoutAt |-> t + duration,
                       AffectedPods |-> affectedPods, TimerCancelFunc |-> "nil"]]

\* TimeoutTracker.IsExpired, clock being time.Now()
IsExpired(t, clock) == clock > t.TimeoutAt

TrackerVars == <<provVars, envVars, sel, conv, tok>>

\* The arguments of a call of NewTimeoutTracker and the time it is made at. ctx is the
\* context behind the cancellation handle ("none" while no handle is set), cancels the
\* number of calls of Cancel, panicked whether a call of Cancel panicked.
InitTracker ==
    /\ InitProvider
    /\ sel = NoSel
    /\ conv = NoConv
    /\ \E d \in Durations, t \in TrackerTimes, pods \in AffectedPodSets :
        trk = [pc |-> "new", deviceID |-> "dev-1", duration |-> d, pods |-> pods,
               now |-> t, err |-> "", tracker |-> NilTracker, ctx |-> "none",
               cancels |-> 0, panicked |-> FALSE]

\* One call of NewTimeoutTracker.
NewTimeoutTrackerCall ==
    /\ trk.pc = "new"
    /\ LET r == NewTimeoutTracker(trk.deviceID, trk.duration, trk.pods, trk.now) IN
        trk' = [trk EXCEPT !.pc = IF r.err = "" THEN "tracking" ELSE "failed",
                           !.err = r.err, !.tracker = r.tracker]
    /\ UNCHANGED TrackerVars

\* The owner of the tracker stores a cancellation handle in TimerCancelFunc: the
\* CancelFunc of a context that ends at the tracker's deadline.
SetTimerCancelFunc ==
    /\ trk.pc = "tracking"
    /\ trk.tracker.TimerCancelFunc = "nil"
    /\ trk' = [trk EXCEPT !.tracker.TimerCancelFunc = "set",
                          !.ctx = IF IsExpired(trk.tracker, trk.now) THEN "expired"
                                  ELSE "active"]
    /\ UNCHANGED TrackerVars

\* Time passes; a context that is still active ends once its deadline has passed (the
\* tracker has fired).
TrackerClock ==
    /\ trk.pc = "tracking"
    /\ \E d \in TrackerClockSteps :
        /\ trk.now + d <= trk.tracker.DisconnectedAt + MaxTrackerAge
        /\ trk' = [trk EXCEPT !.now = @ + d,
                              !.ctx = IF trk.ctx = "active"
                                         /\ IsExpired(trk.tracker, trk.now + d)
                                      THEN "expired" ELSE @]
    /\ UNCHANGED TrackerVars

\* Faulty variant of Cancel: the handle is called without the nil check.
CancelNoNilCheck ==
    /\ trk.pc = "tracking"
    /\ ~trk.panicked
    /\ trk.cancels < MaxCancels
    /\ trk' = IF trk.tracker.TimerCancelFunc # "nil"
              THEN [trk EXCEPT !.cancels = @ + 1,
                               !.ctx = IF @ = "active" THEN "cancelled" ELSE @]
              ELSE [trk EXCEPT !.cancels = @ + 1, !.panicked = TRUE]
    /\ UNCHANGED TrackerVars

\* TimeoutTracker.Cancel: a handle that is set is called; a CancelFunc cancels a context
\* that is still active and does nothing after its first call or once the context has
\* ended.
Cancel ==
    /\ trk.pc = "tracking"
    /\ ~trk.panicked
    /\ trk.cancels < MaxCancels
    /\ trk' = IF trk.tracker.TimerCancelFunc # "nil"
              THEN [trk EXCEPT !.cancels = @ + 1,
                               !.ctx = IF @ = "active" THEN "cancelled" ELSE @]
              ELSE [trk EXCEPT !.cancels = @ + 1]
    /\ UNCHANGED TrackerVars

NextTracker ==
    \/ NewTimeoutTrackerCall
    \/ SetTimerCancelFunc
    \/ TrackerClock
    \/ Cancel

SpecTracker == InitTracker /\ [][NextTracker]_vars

----------------------------------------------------------------------------
(* Properties of CreatePod, UpdatePod and DeletePod *)

Returned(p, op, res) == pc[p] = "idle" /\ ret[p] = [op |-> op, res |-> res]

CreatePCs == {"create_lock", "create_get", "create_put", "create_fin"}

DeletePCs == {"delete_lock", "delete_get", "delete_put", "delete_fin"}

\* C1: a CreatePod call writes the mapping only in its last step, which it reaches only
\* from a successful updateDevice that put the application on the device; a CreatePod
\* that returns an error (device selection, getDevice or updateDevice failed, a
\* cancelled request included) leaves the mapping table as it was, and nobody else
\* changes the table while the call holds the lock.
C1_MappingOnlyAfterDispatch ==
    [][/\ \A p \in Callers :
            (pc[p] \in CreatePCs /\ pc'[p] # pc[p]) =>
                /\ podMappings' # podMappings =>
                      pc[p] = "create_fin" /\ ret'[p] = [op |-> "CreatePod", res |-> "ok"]
                /\ pc'[p] = "create_fin" =>
                      /\ pc[p] = "create_put"
                      /\ HasApp(deviceApps'[loc[p].dev], AppOf(loc[p].pod))
                /\ pc'[p] = "idle" /\ pc[p] # "create_fin" =>
                      /\ ret'[p].op = "CreatePod"
                      /\ ret'[p].res \in {"err", "err_select"}
                      /\ podMappings' = podMappings
       /\ (mu \in Callers /\ podMappings' # podMappings) => pc[mu] # pc'[mu]
      ]_vars

\* A CreatePod has returned an error while the table holds a mapping and the device an
\* application.
C1_Witness ==
    \E p \in Callers :
        /\ Returned(p, "CreatePod", "err")
        /\ DOMAIN podMappings # {}
        /\ \E d \in DeviceIDs : deviceApps[d] # <<>>

\* C2: a DeletePod that returns nil leaves no mapping for its key; DeletePod fails only
\* in its backend calls; and a DeletePod issued when the last successful create or
\* delete of the key was a delete returns nil without changing the mapping table or any
\* device's application list.
C2_DeleteTwice ==
    [][\A p \in Callers :
        LET k == KeyOf(loc[p].pod) IN
        (pc[p] \in DeletePCs /\ pc'[p] # pc[p]) =>
            /\ ret'[p] = [op |-> "DeletePod", res |-> "ok"] => k \notin DOMAIN podMappings'
            /\ ret'[p] = [op |-> "DeletePod", res |-> "err"] =>
                  pc[p] \in {"delete_get", "delete_put"}
            /\ (pc[p] = "delete_lock" /\ lastDone[k] \in Deleted) =>
                  /\ ret'[p] = [op |-> "DeletePod", res |-> "ok"]
                  /\ pc'[p] = "idle"
                  /\ podMappings' = podMappings
                  /\ deviceApps' = deviceApps
      ]_vars

\* A DeletePod removed the mapping of a key and the next DeletePod of that key has
\* returned nil as well, while another key is still mapped and deployed.
C2_Witness ==
    \E p \in Callers, k \in Keys :
        /\ Returned(p, "DeletePod", "ok")
        /\ lastDone[k] = "delete_again"
        /\ ~Mapped(k)
        /\ \E k2 \in Keys \ {k} : Mapped(k2) /\ deviceApps[podMappings[k2].DeviceID] # <<>>

\* C3: in every state, and so whenever all calls have returned, the table holds an
\* entry, filed under its own key, for each key whose last CreatePod or DeletePod to
\* return nil was a CreatePod, and none for any other key.
C3_TableNeverCorrupted ==
    /\ DOMAIN podMappings \subseteq Keys
    /\ \A k \in Keys :
        /\ lastDone[k] = "create" => Mapped(k) /\ podMappings[k].PodKey = k
        /\ lastDone[k] \in Deleted \cup {"none"} => ~Mapped(k)

\* Both callers have returned, one from a CreatePod and one from a DeletePod that
\* removed a mapping, on different keys.
C3_Witness ==
    \E p, q \in Callers, k, k2 \in Keys :
        /\ p # q /\ k # k2
        /\ Returned(p, "CreatePod", "ok") /\ lastDone[k] = "create" /\ Mapped(k)
        /\ Returned(q, "DeletePod", "ok") /\ lastDone[k2] = "delete" /\ ~Mapped(k2)

\* The positions at which the next step of a call is a request to the device API.
BackendCallPCs ==
    {"create_get", "create_put", "delete_get", "delete_put",
     "update_del_get", "update_del_put", "update_dep_get", "update_dep_put"}

\* C4: no caller is about to issue, or waiting for, a request to the device API while
\* it holds the mapping-table lock.
C4_NoBackendCallUnderLock ==
    \A p \in Callers : pc[p] \in BackendCallPCs => mu # p

\* C5: once a DeletePod of a key has returned nil with the key neither mapped nor
\* deployed, and no CreatePod of the key has taken the lock and no UpdatePod of the key
\* has read the table since, every state in which all calls have returned has no
\* mapping and no application for the key.
C5_DeleteIsFinal ==
    \A pod \in PodIdents :
        (cleanDelete[KeyOf(pod)] /\ \A p \in Callers : pc[p] = "idle") =>
            ~Mapped(KeyOf(pod)) /\ NotDeployed(AppOf(pod))

\* C6: the updateDevice of UpdatePod's DeployPod succeeds only when the removal before
\* it succeeded or found the application absent.
C6_NoDispatchAfterFailedRemoval ==
    [][\A p \in Callers :
        (pc[p] = "update_dep_put" /\ ret'[p] = [op |-> "UpdatePod", res |-> "ok"]) =>
            loc[p].delRes \in {"ok", "absent"}
      ]_vars

\* C10: a CreatePod whose updateDevice has succeeded, and which is about to record the
\* mapping, is for a pod whose CPU and memory requests fit the device's allocatable.
C10_NoDispatchBeyondAllocatable ==
    \A p \in Callers :
        pc[p] = "create_fin" =>
            loc[p].req.cpu <= Allocatable.cpu /\ loc[p].req.mem <= Allocatable.mem

----------------------------------------------------------------------------
(* Properties of the handling of a device that loses its connection *)

\* The mapping of k is on device d and is older than the last disconnection of d.
MappedBeforeDisconnect(k, d) ==
    /\ Mapped(k)
    /\ podMappings[k].DeviceID = d
    /\ discAt[d] >= 0
    /\ podMappings[k].DeployedAt < discAt[d]

\* C7: when a device has stayed Disconnected up to the deadline (the time it lost its
\* connection plus the timeout), no mapping older than the disconnection is left for it.
C7_RemovedByDeadline ==
    \A d \in DeviceIDs, k \in Keys :
        (conn[d] = "Disconnected" /\ now >= discAt[d] + ReconnectTimeout) =>
            ~MappedBeforeDisconnect(k, d)

C9_UnknownOnDisconnect ==
    \A d \in DeviceIDs, k \in Keys :
        (/\ poll.pc = "idle"
         /\ <<d, discAt[d]>> \in poll.sawDisc
         /\ conn[d] = "Disconnected"
         /\ MappedBeforeDisconnect(k, d))
        => podMappings[k].Status.Phase = "Unknown"

----------------------------------------------------------------------------
(* Properties of device selection *)

\* C11: HasSufficientResources answers true exactly when the CPU request is at most
\* the allocatable CPU and the memory request at most the allocatable memory, a
\* request equal to the allocatable amount included.
C11_SufficientIffWithinAllocatable ==
    sel.pc = "answered" =>
        (sel.ok <=> (/\ sel.cpu <= sel.dev.Allocatable.CPU
                     /\ sel.memory <= sel.dev.Allocatable.Memory))

\* The devices of the snapshot that carry the ID.
Listed(id) == { i \in 1..Len(sel.devices) : sel.devices[i].ID = id }

\* C12: with a device ID in the target, SelectDevice returns that device when the
\* snapshot lists it with phase Ready and connection Connected, fails with "not found"
\* when the snapshot does not list it, and with "not ready" when it is listed but not
\* Ready or not Connected, whatever the target's fleet and selectors and whatever else
\* the snapshot holds.
C12_ExplicitDevice ==
    (sel.pc = "selected" /\ sel.target.DeviceID # Nil) =>
        IF Listed(sel.target.DeviceID) = {}
        THEN sel.out = [err |-> "not found", id |-> Nil]
        ELSE \A i \in Listed(sel.target.DeviceID) :
                IF /\ sel.devices[i].Phase = "Ready"
                   /\ sel.devices[i].ConnectionState = "Connected"
                THEN sel.out = [err |-> "", id |-> sel.target.DeviceID]
                ELSE sel.out = [err |-> "not ready", id |-> Nil]

\* The named device was returned although it is in another fleet than the target asks
\* for, lacks the target's selector, and a device with more CPU is listed before it.
C12_Witness ==
    /\ sel.pc = "selected"
    /\ sel.target.DeviceID = "dev-1"
    /\ sel.target.FleetID = "fleet-2"
    /\ sel.out = [err |-> "", id |-> "dev-1"]
    /\ Len(sel.devices) = 2
    /\ sel.devices[2].ID = "dev-1"
    /\ sel.devices[2].FleetID = "fleet-1"
    /\ sel.devices[2].Labels = <<>>
    /\ sel.devices[1].Allocatable.CPU > sel.devices[2].Allocatable.CPU
    /\ IsReady(sel.devices[1])

\* The device is in the target's fleet (if one is asked for), its labels hold every
\* selector key with the selector's value, and it is Ready and Connected.
Eligible(dt, d) ==
    /\ dt.FleetID # Nil => d.FleetID = dt.FleetID
    /\ \A k \in DOMAIN dt.Selectors : k \in DOMAIN d.Labels /\ d.Labels[k] = dt.Selectors[k]
    /\ d.Phase = "Ready"
    /\ d.ConnectionState = "Connected"

\* The device of the snapshot that SelectDevice returned.
Chosen == sel.devices[CHOOSE i \in 1..Len(sel.devices) : sel.devices[i].ID = sel.out.id]

\* C13: without a device ID in the target, a device that SelectDevice returns is in the
\* requested fleet, carries every selector key with the selector's value and is Ready
\* and Connected; SelectDevice fails, with "no suitable device found", exactly when
\* the snapshot holds no such device.
C13_OnlyEligibleDevices ==
    (sel.pc = "selected" /\ sel.target.DeviceID = Nil) =>
        IF \E i \in 1..Len(sel.devices) : Eligible(sel.target, sel.devices[i])
        THEN sel.out.err = "" /\ Eligible(sel.target, Chosen)
        ELSE sel.out = [err |-> "no suitable device found", id |-> Nil]

\* The order of device IDs as strings.
IDRank(id) == CASE id = "dev-1" -> 1 [] id = "dev-2" -> 2 [] OTHER -> 3

\* Device a is to be preferred to device b, or is b: more allocatable CPU, then fewer
\* mapped pods, then the smaller ID.
Preferred(a, b, podsByDevice) ==
    \/ a.Allocatable.CPU > b.Allocatable.CPU
    \/ /\ a.Allocatable.CPU = b.Allocatable.CPU
       /\ \/ PodsOf(podsByDevice, a.ID) < PodsOf(podsByDevice, b.ID)
          \/ /\ PodsOf(podsByDevice, a.ID) = PodsOf(podsByDevice, b.ID)
             /\ IDRank(a.ID) <= IDRank(b.ID)

\* C14: without a device ID in the target, an eligible device that SelectDevice returns
\* has, among the eligible devices of the snapshot, the greatest allocatable CPU, among
\* those the fewest mapped pods, and among those the smallest ID.
C14_BestCandidate ==
    (/\ sel.pc = "selected"
     /\ sel.target.DeviceID = Nil
     /\ sel.out.err = ""
     /\ Eligible(sel.target, Chosen))
    => \A i \in 1..Len(sel.devices) :
          Eligible(sel.target, sel.devices[i]) =>
              Preferred(Chosen, sel.devices[i], sel.podsByDevice)

\* C15: for a request (CPU in millicores, memory in GiB) that exceeds, in CPU or in
\* memory, what each device of the snapshot has allocatable, SelectDevice, choosing
\* among candidates, fails.
C15_NoUnderProvisionedDevice ==
    \A cpu \in CPUQuantities, memory \in MemoryQuantities :
        (/\ sel.pc = "selected"
         /\ sel.target.DeviceID = Nil
         /\ \A i \in 1..Len(sel.devices) :
               \/ cpu > sel.devices[i].Allocatable.CPU
               \/ memory > sel.devices[i].Allocatable.Memory)
        => sel.out.err # ""

\* C16: a second SelectDevice on the same snapshot, pod counts and target returns what
\* the first returned, the same device or the same error, in whatever order each call
\* happens to range over the selectors.
C16_SelectionDeterministic ==
    sel.pc = "repeated" => sel.again = sel.out

\* Both calls returned the same one of two devices that tie on CPU and pod count and
\* both match a target with two selectors.
C16_Witness ==
    /\ sel.pc = "repeated"
    /\ sel.target.DeviceID = Nil
    /\ DOMAIN sel.target.Selectors = {"zone", "tier"}
    /\ Len(sel.devices) = 2
    /\ \A i \in 1..2 : Eligible(sel.target, sel.devices[i])
    /\ sel.devices[1].Allocatable.CPU = sel.devices[2].Allocatable.CPU
    /\ sel.podsByDevice = <<>>
    /\ sel.out.err = ""
    /\ sel.again = sel.out

----------------------------------------------------------------------------
(* Properties of the routing of a pod by its annotations *)

\* The pod carries a usable device-id annotation.
HasDeviceID(ann) == deviceIDAnnotation \in DOMAIN ann /\ ann[deviceIDAnnotation] # ""

\* The pod carries a non-empty fleet-id annotation and no usable device-id annotation.
FleetOnly(ann) ==
    /\ fleetIDAnnotation \in DOMAIN ann
    /\ ann[fleetIDAnnotation] # ""
    /\ ~HasDeviceID(ann)

\* C17: a CreatePod of a pod with a non-empty fleet-id annotation and no usable
\* device-id annotation returns the selection error in the step in which it holds the
\* lock: it never reaches a backend call, and the mapping table, the devices'
\* application lists and the lock are as before.
C17_FleetOnlyFailsAtOnce ==
    [][\A p \in Callers :
        (FleetOnly(loc[p].ann) /\ pc[p] \in CreatePCs) =>
            /\ pc[p] = "create_lock"
            /\ pc'[p] # pc[p] =>
                  /\ pc'[p] = "idle"
                  /\ ret'[p] = [op |-> "CreatePod", res |-> "err_select"]
                  /\ podMappings' = podMappings
                  /\ deviceApps' = deviceApps
                  /\ mu' = mu
      ]_vars

\* A CreatePod was refused for its fleet-id annotation while the mapping that an
\* earlier CreatePod made, on the device that one named, is still in place.
C17_Witness ==
    \E p \in Callers, k \in Keys :
        /\ Returned(p, "CreatePod", "err_select")
        /\ Mapped(k)
        /\ podMappings[k].DeviceID = "dev-1"
        /\ HasApp(deviceApps["dev-1"], "ns-a")
        /\ deviceApps[defaultDeviceID] = <<>>

\* C18: a CreatePod of a pod with a usable device-id annotation goes on to deploy to
\* that device, whatever its fleet-id annotation, and
\* the step in which a CreatePod records its mapping files it under the pod's key
\* with, as target, the device of the pod's usable device-id annotation, a fleet-id
\* annotation notwithstanding, or the default device when the pod has no usable
\* device-id annotation (and then no fleet-id either); its phase is Pending with
\* condition PodScheduled True; and the call returns nil.
C18_MappingRecordsTarget ==
    [][\A p \in Callers :
        /\ (pc[p] = "create_lock" /\ pc'[p] # pc[p] /\ HasDeviceID(loc[p].ann)) =>
              /\ pc'[p] = "create_get"
              /\ loc'[p].dev = loc[p].ann[deviceIDAnnotation]
        /\ (pc[p] = "create_fin" /\ pc'[p] # pc[p]) =>
            LET k == KeyOf(loc[p].pod)
                ann == loc[p].ann
            IN  /\ k \in DOMAIN podMappings'
                /\ podMappings'[k].DeviceID =
                      IF HasDeviceID(ann) THEN ann[deviceIDAnnotation] ELSE defaultDeviceID
                /\ ~HasDeviceID(ann) =>
                      (fleetIDAnnotation \notin DOMAIN ann \/ ann[fleetIDAnnotation] = "")
                /\ podMappings'[k].Status.Phase = "Pending"
                /\ podMappings'[k].Status.Type = "PodScheduled"
                /\ podMappings'[k].Status.Status = "True"
                /\ ret'[p] = [op |-> "CreatePod", res |-> "ok"]
      ]_vars

\* A CreatePod has returned nil and the mapping names the annotated device, Pending.
C18_Witness ==
    \E p \in Callers, k \in Keys :
        /\ Returned(p, "CreatePod", "ok")
        /\ Mapped(k)
        /\ podMappings[k].DeviceID = "dev-1"
        /\ podMappings[k].Status = ScheduledStatus
        /\ lastDone[k] = "create"

----------------------------------------------------------------------------
(* Properties of the status mapper *)

\* s and w are the same string up to the case of their letters.
CaseVariant(s, w) ==
    /\ Len(s) = Len(w)
    /\ \A i \in DOMAIN s :
          \/ s[i] = w[i]
          \/ \E j \in DOMAIN Upper : {s[i], w[i]} = {Upper[j], Lower[j]}

\* The mapping table: the phase of a table value.
TablePhase(w) ==
    CASE w = running -> "Running"
      [] w \in {pending, starting} -> "Pending"
      [] w \in {failed, error} -> "Failed"
      [] w \in {completed, succeeded, stopped} -> "Succeeded"

\* The mapping table: the Ready condition of a table value, "-" where it has none.
TableReady(w) ==
    CASE w = running -> "True"
      [] w \in {pending, starting} -> "-"
      [] w \in {failed, error, completed, succeeded, stopped} -> "False"

\* C19: a status string that is a table value up to the case of its letters is mapped
\* to that value's phase of the table: running to Running with Ready True, pending and
\* starting to Pending, failed and error to Failed with Ready False, completed,
\* succeeded and stopped to Succeeded with Ready False.
C19_TableValuesMapped ==
    conv.pc = "mapped" =>
        \A w \in TableWords :
            CaseVariant(conv.status, w) =>
                /\ conv.out.Phase = TablePhase(w)
                /\ TableReady(w) # "-" =>
                      /\ conv.out.Type = "Ready"
                      /\ conv.out.Status = TableReady(w)

\* The status "StOpPeD" has been mapped, to Succeeded with Ready False.
C19_Witness ==
    /\ conv.pc = "mapped"
    /\ conv.status = <<"S", "t", "O", "p", "P", "e", "D">>
    /\ conv.out.Phase = "Succeeded"
    /\ conv.out.Type = "Ready"
    /\ conv.out.Status = "False"

\* C20: a status string that is no table value, whatever the case of its letters, the
\* empty string included, is mapped to phase Pending.
C20_UnknownIsPending ==
    (conv.pc = "mapped" /\ ~\E w \in TableWords : CaseVariant(conv.status, w)) =>
        conv.out.Phase = "Pending"

\* The empty status string has been mapped, to Pending.
C20_Witness ==
    /\ conv.pc = "mapped"
    /\ conv.status = <<>>
    /\ conv.out.Phase = "Pending"
    /\ conv.out.Reason = "UnknownStatus"

----------------------------------------------------------------------------
(* Properties of GetPodStatus and of the reconciliation of the cached status *)

\* The device document lists a runtime status entry for the application.
Reported(device, appName) ==
    /\ ~device.status.nil
    /\ \E i \in DOMAIN device.status.Applications :
          device.status.Applications[i].Name = appName

\* C21: when getDevice succeeds, an application that is in the device's spec and has no
\* runtime status entry is reported Pending with reason ApplicationDeployed and no
\* error, whereas one whose entry carries an unrecognized string is reported with
\* reason UnknownStatus; an application that is not in the device's spec gets an error
\* and no status.
C21_DeployedWithoutReport ==
    (conv.pc = "answered" /\ ~conv.device.err) =>
        LET device == conv.device
            inSpec == HasApp(device.apps, conv.appName)
        IN  /\ (inSpec /\ ~Reported(device, conv.appName)) =>
                  /\ conv.out.err = ""
                  /\ conv.out.status.Phase = "Pending"
                  /\ conv.out.status.Reason = "ApplicationDeployed"
            /\ (inSpec /\ Reported(device, conv.appName)
                  /\ FirstReport(device.status.Applications, conv.appName).Status
                        \in {<<"b", "o", "g", "u", "s">>, <<>>}) =>
                  /\ conv.out.err = ""
                  /\ conv.out.status.Phase = "Pending"
                  /\ conv.out.status.Reason = "UnknownStatus"
            /\ ~inSpec =>
                  /\ conv.out.err # ""
                  /\ conv.out.status = NilStatus

\* GetPodStatus has answered ApplicationDeployed for an application that is in the spec
\* of a device whose runtime status lists another application only.
C21_Witness ==
    /\ conv.pc = "answered"
    /\ ~conv.device.err
    /\ conv.device.apps = <<"ns-b", "ns-a">>
    /\ conv.device.status =
          [nil |-> FALSE, Applications |-> <<[Name |-> "ns-b", Status |-> running]>>]
    /\ conv.out = [err |-> "", status |-> DeployedStatus]

C23_PollFailureKeepsStatus ==
    [][(poll.pc = "get" /\ poll' # poll /\ poll'.failed) =>
        /\ podMappings' = podMappings
        /\ poll'.pc \in {"get", "idle"}
        /\ poll'.snap = Tail(poll.snap)
      ]_vars

\* A poll tick ended on a failed query and the mapping still carries the Running
\* status an earlier tick cached.
C23_Witness ==
    \E k \in Keys :
        /\ poll.pc = "idle"
        /\ poll.failed
        /\ Mapped(k)
        /\ podMappings[k].Status.Phase = "Running"
        /\ HasApp(deviceApps[podMappings[k].DeviceID], "ns-a")

\* C24: every mapping of the table carries a cached status; no GetPod is ever at the
\* point of querying the backend, and no GetPods returns a pod without a status; a
\* GetPod that goes on to read the status does so for a mapped key, and a GetPod that
\* returns from its lookup returns an error.
C24_StatusAlwaysCached ==
    /\ [](/\ \A k \in DOMAIN podMappings : podMappings[k].Status # NilStatus
          /\ \A p \in Callers :
                /\ pc[p] # "getpod_fallback"
                /\ ret[p] # [op |-> "GetPods", res |-> "empty_status"])
    /\ [][\A p \in Callers :
            /\ (pc[p] = "idle" /\ pc'[p] = "getpod_status") =>
                  /\ Mapped(KeyOf(loc'[p].pod))
                  /\ podMappings' = podMappings /\ deviceApps' = deviceApps
            /\ (pc[p] = "getpod_status" /\ pc'[p] # pc[p]) =>
                  /\ ret'[p] = [op |-> "GetPod", res |-> "ok"]
                  /\ podMappings' = podMappings /\ deviceApps' = deviceApps
            /\ (pc[p] = "idle" /\ pc'[p] = "idle" /\ ret'[p] # ret[p]
                  /\ ret'[p].op = "GetPod") =>
                  /\ ret'[p].res = "err"
                  /\ \E pod \in OnePod : ~Mapped(KeyOf(pod))
                  /\ podMappings' = podMappings /\ deviceApps' = deviceApps
       ]_vars

\* A GetPod has answered from the cache with the status the poll stored.
C24_Witness ==
    \E p \in Callers, k \in Keys :
        /\ Returned(p, "GetPod", "ok")
        /\ Mapped(k)
        /\ podMappings[k].Status.Phase = "Running"
        /\ poll.pc = "idle"

----------------------------------------------------------------------------
(* Properties of the token manager *)

\* C25, as stated: a goroutine that found no valid token and for which another
\* goroutine stored a token while it waited for the lock sends no token request.
C25_OneAcquisition ==
    \A r \in Requesters : tok.pc[r] = "fetch_http" => ~tok.served[r]

\* C25, amended: token requests are sent one at a time, and a goroutine that takes the
\* lock in fetchToken sends a token request exactly when the cached token is not valid
\* at that moment; when it is valid the goroutine goes on with that token and the
\* number of token requests stays as it was.
C25_OneAcquisitionWhileValid ==
    /\ [](\A r, q \in Requesters :
            (tok.pc[r] = "fetch_http" /\ tok.pc[q] = "fetch_http") => r = q)
    /\ [][\A r \in Requesters :
            (tok.pc[r] = "fetch_lock" /\ tok'.pc[r] # "fetch_lock") =>
                IF TokenValid(tok)
                THEN /\ tok'.pc[r] = "send"
                     /\ tok'.token[r].id = tok.accessToken
                     /\ tok'.token[r].cached
                     /\ tok'.requests = tok.requests
                     /\ tok'.accessToken = tok.accessToken
                ELSE /\ tok'.pc[r] = "fetch_http"
                     /\ tok'.requests = tok.requests + 1
       ]_vars

\* Both goroutines missed the cache, one token request was sent, and the goroutine
\* that waited goes on with the token the other stored.
C25_Witness ==
    \E r, q \in Requesters :
        /\ r # q
        /\ tok.requests = 1
        /\ tok.served[r]
        /\ tok.pc[r] = "send"
        /\ tok.token[r] = [CachedToken(tok) EXCEPT !.at = tok.token[r].at]
        /\ tok.token[q].id = tok.token[r].id
        /\ ~tok.token[q].cached

\* C26: a request that goes out with a token taken from the cache was given that
\* token no later than 60 seconds before the token's reported expiry (the time it was
\* acquired plus the reported expires_in).
C26_MarginBeforeExpiry ==
    \A r \in Requesters :
        (tok.pc[r] = "send" /\ tok.token[r].cached) =>
            tok.token[r].at <= tok.token[r].acquiredAt + tok.token[r].expiresIn - 60

----------------------------------------------------------------------------
(* Properties of the timeout tracker *)

\* C28: NewTimeoutTracker returns a tracker and no error exactly when the duration is
\* at least one minute and at most thirty minutes; the tracker's DisconnectedAt is the
\* time of the call and its TimeoutAt that time plus the duration; otherwise it
\* returns an error and a nil tracker.
C28_DurationBounds ==
    trk.pc \in {"tracking", "failed"} =>
        IF 60 <= trk.duration /\ trk.duration <= 1800
        THEN /\ trk.pc = "tracking"
             /\ trk.err = ""
             /\ trk.tracker.TimeoutDuration = trk.duration
             /\ trk.tracker.TimeoutAt = trk.tracker.DisconnectedAt + trk.duration
             /\ trk.tracker.DeviceID = trk.deviceID
             /\ trk.tracker.AffectedPods = trk.pods
        ELSE /\ trk.pc = "failed"
             /\ trk.err # ""
             /\ trk.tracker = NilTracker

\* A tracker of exactly one minute was made at time 1000: its deadline is 1060.
C28_Witness ==
    /\ trk.pc = "tracking"
    /\ trk.duration = 60
    /\ trk.cancels = 0
    /\ trk.tracker.DisconnectedAt = 1000
    /\ trk.tracker.TimeoutAt = 1060

\* C29: no call of Cancel panics, whether a handle has been set or not; a call of
\* Cancel changes nothing but the handle's context, which it ends if it is still active
\* and leaves as it is once cancelled or expired; and it leaves the mapping table and
\* the backend's devices alone.
C29_CancelIsSafe ==
    /\ [](~trk.panicked)
    /\ [][(trk.pc = "tracking" /\ trk'.cancels # trk.cancels) =>
            /\ trk'.tracker = trk.tracker
            /\ trk'.ctx = IF trk.ctx = "active" THEN "cancelled" ELSE trk.ctx
            /\ trk'.pc = "tracking"
            /\ podMappings' = podMappings
            /\ deviceApps' = deviceApps
       ]_vars

\* Cancel has been called three times on a tracker: before a handle was set it did
\* nothing, and now the context behind the handle has expired.
C29_Witness ==
    /\ trk.pc = "tracking"
    /\ trk.cancels = 3
    /\ trk.ctx = "expired"
    /\ ~trk.panicked

----------------------------------------------------------------------------
(* Properties of a restart *)

\* C30: after a restart, a pod that has no mapping and whose application is in the
\* spec of the device it is to run on gets its mapping without being dispatched: no
\* CreatePod is at the point of sending the device document (updateDevice) for it.
C30_ReadoptedWithoutDispatch ==
    \A p \in Callers :
        (pc[p] = "create_put" /\ ~Mapped(KeyOf(loc[p].pod))) =>
            ~HasApp(deviceApps[loc[p].dev], AppOf(loc[p].pod))

----------------------------------------------------------------------------
(* convertPodToDockerCompose *)

\* The text convertPodToDockerCompose builds is kept as its sequence of lines, each
\* line as the sequence of pieces written into it; the empty string is the empty
\* sequence of lines.
EmptyCompose == <<>>

\* sanitizeServiceName: lower case, every "." replaced by "-".
sanitizeServiceName(name) ==
    [i \in DOMAIN name |->
        IF ToLowerChar(name[i]) = "." THEN "-" ELSE ToLowerChar(name[i])]

\* Faulty variant of composeRestartPolicy: every policy restarts unless stopped.
composeRestartPolicyDefault(policy) == "unless-stopped"

\* The restart policy written for a pod's RestartPolicy: "unless-stopped" unless the
\* pod says Never or OnFailure.
composeRestartPolicy(policy) ==
    IF policy = "Never" THEN "no"
    ELSE IF policy = "OnFailure" THEN "on-failure"
    ELSE "unless-stopped"

\* The lines of a list (entrypoint, command) under its heading, none if the list is
\* empty.
composeList(heading, items) ==
    IF Len(items) = 0 THEN <<>>
    ELSE <<(<<heading>>)>> \o [i \in DOMAIN items |-> <<"      - ", items[i]>>]

\* The line of one environment variable: its value, a placeholder comment when the
\* value comes from a secret or config map, nothing when it has neither.
composeEnvLine(env) ==
    IF env.Value # "" THEN <<(<<"      - ", env.Name, "=", env.Value>>)>>
    ELSE IF env.ValueFrom THEN <<(<<"      # ", env.Name, ": (from secret/configmap)">>)>>
    ELSE <<>>

RECURSIVE composeEnvLines(_)
composeEnvLines(envs) ==
    IF Len(envs) = 0 THEN <<>>
    ELSE composeEnvLine(Head(envs)) \o composeEnvLines(Tail(envs))

RECURSIVE composePortLines(_)
composePortLines(ports) ==
    IF Len(ports) = 0 THEN <<>>
    ELSE (IF Head(ports) > 0
          THEN <<(<<"      - \"", Head(ports), ":", Head(ports), "\"">>)>>
          ELSE <<>>) \o composePortLines(Tail(ports))

\* The lines of one container's service.
composeService(container, policy) ==
    <<(<<"  ">> \o sanitizeServiceName(container.Name) \o <<":">>)>>
    \o <<(<<"    image: ", container.Image>>)>>
    \o composeList("    entrypoint:", container.Command)
    \o composeList("    command:", container.Args)
    \o (IF Len(container.Env) > 0
        THEN <<(<<"    environment:">>)>> \o composeEnvLines(container.Env)
        ELSE <<>>)
    \o (IF Len(container.Ports) > 0
        THEN <<(<<"    ports:">>)>> \o composePortLines(container.Ports)
        ELSE <<>>)
    \o <<(<<"    restart: ", composeRestartPolicy(policy)>>)>>
    \o <<(<<"">>)>>

RECURSIVE composeServices(_, _)
composeServices(containers, policy) ==
    IF Len(containers) = 0 THEN <<>>
    ELSE composeService(Head(containers), policy)
         \o composeServices(Tail(containers), policy)

\* convertPodToDockerCompose
convertPodToDockerCompose(pod) ==
    IF pod.nil \/ Len(pod.Containers) = 0 THEN EmptyCompose
    ELSE <<(<<" version: '3.8'">>), (<<" services:">>)>>
         \o composeServices(pod.Containers, pod.RestartPolicy)

\* The containers the conversion is tried on: plain, with a name to sanitize, with
\* entrypoint and arguments, with environment and ports.
ComposeContainers ==
    { [Name |-> <<"a", "p", "p">>, Image |-> "myapp:v1.0", Command |-> <<>>,
       Args |-> <<>>, Env |-> <<>>, Ports |-> <<8080>>],
      [Name |-> <<"W", "e", "b", ".", "1">>, Image |-> "nginx", Command |-> <<>>,
       Args |-> <<>>, Env |-> <<>>, Ports |-> <<>>],
      [Name |-> <<"l", "o", "g">>, Image |-> "fluentd", Command |-> <<"run">>,
       Args |-> <<"-c", "conf">>, Env |-> <<>>, Ports |-> <<0>>],
      [Name |-> <<"d", "b">>, Image |-> "pg", Command |-> <<>>, Args |-> <<>>,
       Env |-> <<[Name |-> "USER", Value |-> "u", ValueFrom |-> FALSE],
                 [Name |-> "PASS", Value |-> "", ValueFrom |-> TRUE],
                 [Name |-> "NONE", Value |-> "", ValueFrom |-> FALSE]>>,
       Ports |-> <<5432, 0>>] }

\* corev1.RestartPolicy; "" is a pod that leaves it unset.
RestartPolicies == {"Always", "Never", "OnFailure", ""}

ComposeContainerLists ==
    {<<>>} \cup {<<c>> : c \in ComposeContainers}
           \cup {<<c, d>> : c \in ComposeContainers, d \in ComposeContainers}

NilPod == [nil |-> TRUE, RestartPolicy |-> "", Containers |-> <<>>]

ComposePods ==
    {NilPod} \cup
    {[nil |-> FALSE, RestartPolicy |-> rp, Containers |-> cs] :
        rp \in RestartPolicies, cs \in ComposeContainerLists}

InitCompose ==
    /\ InitProvider
    /\ trk = NoTrk
    /\ sel = NoSel
    /\ \E pod \in ComposePods : conv = [pc |-> "pod", pod |-> pod, out |-> EmptyCompose]

\* One call of convertPodToDockerCompose.
ConvertPodCall ==
    /\ conv.pc = "pod"
    /\ conv' = [conv EXCEPT !.pc = "composed", !.out = convertPodToDockerCompose(conv.pod)]
    /\ UNCHANGED <<provVars, envVars, sel, tok, trk>>

NextCompose == ConvertPodCall

SpecCompose == InitCompose /\ [][NextCompose]_vars

\* A line that opens a service: two spaces, the name, a colon.
IsServiceLine(line) == Len(line) >= 2 /\ line[1] = "  " /\ line[Len(line)] = ":"

IsRestartLine(line) == Len(line) = 2 /\ line[1] = "    restart: "

\* The positions of the lines that open a service, in order.
ServiceLines(out) == {i \in DOMAIN out : IsServiceLine(out[i])}

\* The lines of the service opened at position i: up to the next service or the end.
ServiceEnd(out, i) ==
    IF \E j \in ServiceLines(out) : j > i
    THEN (CHOOSE j \in ServiceLines(out) :
            j > i /\ \A k \in ServiceLines(out) : k > i => j <= k) - 1
    ELSE Len(out)

\* The restart policies written inside the service opened at position i.
RestartsOf(out, i) ==
    {j \in (i + 1)..ServiceEnd(out, i) : IsRestartLine(out[j])}

\* The restart policy the specification gives for a pod's policy.
TableRestart(policy) ==
    CASE policy = "Always" -> "unless-stopped"
      [] policy = "Never" -> "no"
      [] policy = "OnFailure" -> "on-failure"

\* C31: convertPodToDockerCompose returns the empty string exactly when the pod is nil
\* or has no containers; otherwise the text has one service per container, in the
\* containers' order and under their sanitized names, and each service carries one
\* restart line, with Always written as unless-stopped, Never as no and OnFailure as
\* on-failure.
C31_ComposeServices ==
    conv.pc = "composed" =>
        LET pod == conv.pod
            out == conv.out
        IN  /\ (out = EmptyCompose) <=> (pod.nil \/ Len(pod.Containers) = 0)
            /\ out # EmptyCompose =>
                /\ Cardinality(ServiceLines(out)) = Len(pod.Containers)
                /\ \A i \in ServiceLines(out) :
                    LET n == Cardinality({j \in ServiceLines(out) : j <= i})
                    IN  /\ out[i] = <<"  ">> \o sanitizeServiceName(pod.Containers[n].Name)
                                          \o <<":">>
                        /\ Cardinality(RestartsOf(out, i)) = 1
                        /\ pod.RestartPolicy \in {"Always", "Never", "OnFailure"} =>
                            \A j \in RestartsOf(out, i) :
                                out[j][2] = TableRestart(pod.RestartPolicy)

\* A pod with two containers and restart policy OnFailure has been converted.
C31_Witness ==
    /\ conv.pc = "composed"
    /\ ~conv.pod.nil
    /\ Len(conv.pod.Containers) = 2
    /\ conv.pod.RestartPolicy = "OnFailure"
    /\ Cardinality(ServiceLines(conv.out)) = 2

----------------------------------------------------------------------------
(* Properties of the cached status and the poll *)

\* The step is one of caller p leaving the given position of its call.
Leaves(p, label) == pc[p] = label /\ pc'[p] # label

\* The step is the poll's write-back for the entry at hand.
PollWrites == poll.pc = "write" /\ poll'.pc # "write"

PollSteps == poll' # poll

\* C33: a step of the poll leaves every device's application list as it is, adds no
\* mapping to the table and removes none, and changes nothing of a mapping but its
\* cached status.
C33_PollOnlyRefreshes ==
    [][PollSteps =>
        /\ deviceApps' = deviceApps
        /\ DOMAIN podMappings' = DOMAIN podMappings
        /\ \A k \in DOMAIN podMappings :
            podMappings'[k] = [podMappings[k] EXCEPT !.Status = podMappings'[k].Status]
      ]_vars

\* A tick has ended after writing the status of a deployed application that has no
\* report yet: the mapping and the application are both in place.
C33_Witness ==
    \E k \in Keys :
        /\ poll.pc = "idle"
        /\ ~poll.failed
        /\ Mapped(k)
        /\ podMappings[k].Status = DeployedStatus
        /\ \E i \in PodIdents :
            KeyOf(i) = k /\ HasApp(deviceApps[podMappings[k].DeviceID], AppOf(i))

\* C34: the poll's write-back for a key that is no longer mapped leaves the table as it
\* is, so a key whose last successful call was a DeletePod has no mapping, whether or
\* not a tick that had it in its snapshot ends afterwards.
C34_DeletedStaysDeleted ==
    /\ [](\A k \in Keys : lastDone[k] = "delete" => ~Mapped(k))
    /\ [][(PollWrites /\ ~Mapped(poll.snap[1].PodKey)) => podMappings' = podMappings]_vars

\* The poll holds a status for a key from its snapshot, and a DeletePod has removed
\* the key's mapping in the meantime.
C34_Witness ==
    \E k \in Keys :
        /\ poll.pc = "write"
        /\ poll.snap[1].PodKey = k
        /\ lastDone[k] = "delete"
        /\ ~Mapped(k)

\* C35: the poll writes a status into a mapping only if it was computed from the
\* device the mapping records: a write-back whose snapshot entry names another device
\* than the mapping now under the key leaves the table as it is.
C35_StatusFromOwnDevice ==
    [][\A k \in Keys :
        (PollWrites /\ poll.snap[1].PodKey = k /\ Mapped(k)
                    /\ poll.snap[1].DeviceID # podMappings[k].DeviceID) =>
            podMappings' = podMappings
      ]_vars

----------------------------------------------------------------------------
(* Two workloads on one device *)

OtherPod == PodIdents \ OnePod

\* SpecShared: two pods that both go to the default device. Caller c1 creates and
\* updates pod ns/a, caller c2 creates and deletes pod ns/b.
NextShared ==
    \/ CreatePod("c1", OnePod, UnroutedAnnotations, SmallRequests)
    \/ UpdatePod("c1", OnePod)
    \/ CreatePod("c2", OtherPod, UnroutedAnnotations, SmallRequests)
    \/ DeletePod("c2", OtherPod)

SpecShared == Init /\ [][NextShared]_vars

\* C36: once an UpdatePod of one workload and a CreatePod or DeletePod of another
\* workload on the same device have both returned nil, the device's application list
\* has an entry for every mapped workload and none for a deleted one.
C36_UpdateKeepsOthersChange ==
    (/\ \A p \in Callers : pc[p] = "idle"
     /\ ret["c1"] = [op |-> "UpdatePod", res |-> "ok"]
     /\ ret["c2"].op \in {"CreatePod", "DeletePod"}
     /\ ret["c2"].res = "ok") =>
        \A i \in PodIdents :
            LET k == KeyOf(i) IN
            /\ Mapped(k) => HasApp(deviceApps[podMappings[k].DeviceID], AppOf(i))
            /\ (~Mapped(k) /\ lastDone[k] = "delete") => NotDeployed(AppOf(i))

----------------------------------------------------------------------------
(* Application names *)

\* Two pods whose namespaces and names contain "-", as DNS labels may.
HyphenPods ==
    { [Namespace |-> "a-b", Name |-> "c", UID |-> "uid-1"],
      [Namespace |-> "a", Name |-> "b-c", UID |-> "uid-2"] }

HyphenKeys == { KeyOf(i) : i \in HyphenPods }

InitNames ==
    /\ tok = NewTokenManager
    /\ trk = NoTrk
    /\ sel = NoSel
    /\ conv = NoConv
    /\ podMappings = EmptyMappings
    /\ mu = NoOne
    /\ pc = [p \in Callers |-> "idle"]
    /\ loc = [p \in Callers |-> IdleLoc]
    /\ ret = [p \in Callers |-> NoRet]
    /\ poll = IdlePoll
    /\ deviceApps = [d \in DeviceIDs |-> <<>>]
    /\ lastDone = [k \in HyphenKeys |-> "none"]
    /\ cleanDelete = [k \in HyphenKeys |-> FALSE]
    /\ conn = [d \in DeviceIDs |-> "Connected"]
    /\ now = 0
    /\ discAt = [d \in DeviceIDs |-> -1]
    /\ reconnAt = [d \in DeviceIDs |-> -1]

\* SpecNames: one caller, calls one after the other, the two pods on the default device.
NextNames ==
    \E p \in OneCaller :
        \/ CreatePod(p, HyphenPods, NoAnnotations, SmallRequests)
        \/ UpdatePod(p, HyphenPods)
        \/ DeletePod(p, HyphenPods)

SpecNames == InitNames /\ [][NextNames]_vars

\* C37: mapped pods with different keys have different application names, and a step of a
\* call for one pod leaves the application of every other mapped pod in the
\* application list of its device.
C37_OthersEntryKept ==
    /\ [](\A i, j \in HyphenPods :
            (Mapped(KeyOf(i)) /\ Mapped(KeyOf(j)) /\ KeyOf(i) # KeyOf(j)) => AppOf(i) # AppOf(j))
    /\ [][\A p \in Callers, j \in HyphenPods :
            (/\ loc[p].pod \in HyphenPods
             /\ KeyOf(j) # KeyOf(loc[p].pod)
             /\ Mapped(KeyOf(j))
             /\ HasApp(deviceApps[podMappings[KeyOf(j)].DeviceID], AppOf(j))) =>
                HasApp(deviceApps'[podMappings[KeyOf(j)].DeviceID], AppOf(j))
       ]_vars

----------------------------------------------------------------------------
(* Failed calls *)

\* The step is UpdatePod of caller p returning an error from PodManager.UpdatePod.
UpdateFails(p) ==
    /\ pc[p] \in {"update_dep_get", "update_dep_put"}
    /\ ret'[p] = [op |-> "UpdatePod", res |-> "err"]

\* C38: when UpdatePod returns an error, the application it found deployed for the
\* workload is in the device's application list, next to the mapping it leaves in
\* place: a call that has removed the application does not return an error without it.
C38_FailedUpdateKeepsApp ==
    [][\A p \in Callers :
        (UpdateFails(p) /\ loc[p].delRes = "ok") =>
            /\ Mapped(KeyOf(loc[p].pod))
            /\ HasApp(deviceApps'[loc[p].dev], AppOf(loc[p].pod))
      ]_vars

\* Caller p is in PodManager.DeletePod, called by Provider.DeletePod.
InBackendRemoval(p) == pc[p] \in {"delete_get", "delete_put"}

\* C39: DeletePod removes the application from the device its mapping records, and
\* when getDevice or updateDevice fails it returns an error and leaves the mapping
\* table, device ID and cached status included, as it was.
C39_FailedDeleteKeepsMapping ==
    /\ [](\A p \in Callers :
            InBackendRemoval(p) =>
                /\ Mapped(KeyOf(loc[p].pod))
                /\ loc[p].dev = podMappings[KeyOf(loc[p].pod)].DeviceID)
    /\ [][\A p \in Callers :
            (InBackendRemoval(p) /\ pc'[p] = "idle") =>
                /\ ret'[p] = [op |-> "DeletePod", res |-> "err"]
                /\ podMappings' = podMappings
       ]_vars

\* A DeletePod has failed for a pod placed on dev-1 whose cached status the poll had
\* set to Running: the mapping is still there.
C39_Witness ==
    \E p \in Callers, k \in Keys :
        /\ pc[p] = "idle"
        /\ ret[p] = [op |-> "DeletePod", res |-> "err"]
        /\ Mapped(k)
        /\ podMappings[k].DeviceID = "dev-1"
        /\ podMappings[k].Status.Phase = "Running"

----------------------------------------------------------------------------
(* PodManager on one device's application list *)

\* The calls made on a device's application list are counted up to MaxCalls.
MaxCalls == 3

\* podToFlightctlApplication: the name from namespace and name, the compose text
\* from the pod (here its image).
podToFlightctlApplication(pod) ==
    [Name |-> AppName(pod.Namespace, pod.Name), AppType |-> "compose", Inline |-> pod.Image]

\* The loops of DeployPod and DeletePod: the applications not of the given name, in
\* their order.
RECURSIVE WithoutApp(_, _)
WithoutApp(apps, name) ==
    IF Len(apps) = 0 THEN <<>>
    ELSE (IF Head(apps).Name # name THEN <<Head(apps)>> ELSE <<>>)
         \o WithoutApp(Tail(apps), name)

\* Faulty variant of PodManagerDeployPod: the new application is appended without
\* looking for an entry of its name.
PodManagerDeployPodAppends(apps, pod) == Append(apps, podToFlightctlApplication(pod))

\* PodManager.DeployPod, successful: the device's new spec.applications.
PodManagerDeployPod(apps, pod) ==
    Append(WithoutApp(apps, podToFlightctlApplication(pod).Name),
           podToFlightctlApplication(pod))

\* PodManager.DeletePod, successful: the device's new spec.applications (the document
\* is not sent when the application was not found).
PodManagerDeletePod(apps, pod) ==
    IF \E i \in DOMAIN apps : apps[i].Name = AppName(pod.Namespace, pod.Name)
    THEN WithoutApp(apps, AppName(pod.Namespace, pod.Name))
    ELSE apps

\* PodManager.UpdatePod, successful: DeletePod, then DeployPod.
PodManagerUpdatePod(apps, pod) == PodManagerDeployPod(PodManagerDeletePod(apps, pod), pod)

Images == {"v1", "v2"}

\* The pods handed to the PodManager.
ManagedPods == [Namespace : Namespaces, Name : Names, Image : Images]

\* The entries a device's list may start with: applications of the pods, and one that
\* no pod of the provider stands for.
StartEntries ==
    { podToFlightctlApplication(pod) : pod \in ManagedPods }
    \cup { [Name |-> "ext", AppType |-> "compose", Inline |-> i] : i \in Images }

DistinctNames(apps) == \A i, j \in DOMAIN apps : i # j => apps[i].Name # apps[j].Name

\* The lists a device starts with: up to two entries of pairwise distinct names.
StartLists ==
    {<<>>} \cup { <<e>> : e \in StartEntries }
           \cup { l \in { <<e, f>> : e \in StartEntries, f \in StartEntries } :
                    DistinctNames(l) }

\* The last call made on the list: its kind, its pod, and the list it found.
NoCall == [kind |-> "", pod |-> [Namespace |-> "", Name |-> "", Image |-> ""], before |-> <<>>]

InitManager ==
    /\ InitProvider
    /\ trk = NoTrk
    /\ sel = NoSel
    /\ \E l \in StartLists : conv = [pc |-> "device", apps |-> l, calls |-> 0, last |-> NoCall]

\* One successful call of the PodManager; calls are made one after the other.
ManagerCall(kind, pod, apps) ==
    /\ conv.pc = "device"
    /\ conv.calls < MaxCalls
    /\ conv' = [conv EXCEPT !.apps = apps, !.calls = @ + 1,
                            !.last = [kind |-> kind, pod |-> pod, before |-> conv.apps]]
    /\ UNCHANGED <<provVars, envVars, sel, tok, trk>>

ManagerDeploys == \E pod \in ManagedPods : ManagerCall("DeployPod", pod, PodManagerDeployPod(conv.apps, pod))

ManagerUpdates == \E pod \in ManagedPods : ManagerCall("UpdatePod", pod, PodManagerUpdatePod(conv.apps, pod))

ManagerDeletes == \E pod \in ManagedPods : ManagerCall("DeletePod", pod, PodManagerDeletePod(conv.apps, pod))

NextManager ==
    \/ ManagerDeploys
    \/ ManagerUpdates
    \/ ManagerDeletes

SpecManager == InitManager /\ [][NextManager]_vars

\* The entries of a list whose name is not the given one, in their order.
Others(apps, name) == SelectSeq(apps, LAMBDA e : e.Name # name)

\* The entries of a list under the given name.
Named(apps, name) == SelectSeq(apps, LAMBDA e : e.Name = name)

\* C40: a device's application list that starts with pairwise distinct names keeps
\* them pairwise distinct under successful DeployPod, UpdatePod and DeletePod calls made
\* one after the other; after DeployPod or UpdatePod the list has the pod's application
\* once, as the call built it, after DeletePod not at all, and the entries of other
\* names are the same, in the same order, as before the call.
C40_NamesStayDistinct ==
    /\ [](conv.pc = "device" => DistinctNames(conv.apps))
    /\ [][(conv.pc = "device" /\ conv'.calls # conv.calls) =>
            LET pod == conv'.last.pod
                app == podToFlightctlApplication(pod)
            IN  /\ Others(conv'.apps, app.Name) = Others(conv.apps, app.Name)
                /\ conv'.last.kind \in {"DeployPod", "UpdatePod"} =>
                        Named(conv'.apps, app.Name) = <<app>>
                /\ conv'.last.kind = "DeletePod" => Named(conv'.apps, app.Name) = <<>>
       ]_vars

\* A pod whose application was in the list with another image, between two entries of
\* other names, has been deployed again.
C40_Witness ==
    /\ conv.pc = "device"
    /\ conv.last.kind = "DeployPod"
    /\ Len(conv.last.before) = 3
    /\ conv.last.before[2].Name = podToFlightctlApplication(conv.last.pod).Name
    /\ conv.last.before[2].Inline # conv.last.pod.Image
    /\ Len(conv.apps) = 3

====
